---- MODULE Spec2Model ----
(***************************************************************************)
(* Model of the sentiment scoring pipeline of src/app.py: the range        *)
(* position scorer, the weighted index aggregators (price action and ISS), *)
(* the zone classifiers and the hysteresis-gated signal generator.         *)
(*                                                                         *)
(* Numbers are exact rationals <<n, d>> with d > 0 in lowest terms; the    *)
(* Python value None is the empty tuple.                                   *)
(***************************************************************************)
EXTENDS Integers, Sequences, FiniteSets, TLC

\* fn, args, ret, pc: the operation under way, its arguments, its result
\*     (return value or HTTP response) and the position of its caller
\* sheet: the data rows of the history spreadsheet, oldest first
\* now: the wall clock (get_ist_time), in hours
\* cached_data: the shared cache the refresh writes and the endpoints read
\* GOOGLE_SHEETS_ENABLED: the store was configured at start-up (lines 21-68)
VARIABLES fn, args, ret, pc, sheet, now, cached_data, GOOGLE_SHEETS_ENABLED

vars == <<fn, args, ret, pc, sheet, now, cached_data, GOOGLE_SHEETS_ENABLED>>

\* the state of the server: history store, clock and shared cache
server == <<sheet, now, cached_data, GOOGLE_SHEETS_ENABLED>>

----------------------------------------------------------------------------
(* Bounds of the model *)

\* prices given to calculate_price_strength range over -1..MaxPrice
MaxPrice == 5
\* number of quotes in one stocks_data / market_data list
MaxStocks == 2
\* rows added to the history sheet in one behaviour
MaxRows == 2
\* clock advances in one behaviour
MaxTicks == 2
\* rows of the sheet edited by hand
MaxEdits == 1

----------------------------------------------------------------------------
(* Exact rational arithmetic *)

None == <<>>

Abs(x) == IF x < 0 THEN -x ELSE x

RECURSIVE GCD(_, _)
GCD(a, b) == IF b = 0 THEN a ELSE GCD(b, a % b)

Norm(n, d) ==
    LET g == GCD(Abs(n), d)
    IN  <<n \div g, d \div g>>

R(n) == <<n, 1>>
Frac(n, d) == IF d < 0 THEN Norm(-n, -d) ELSE Norm(n, d)

\* sums over the least common denominator and products cancelled crosswise,
\* so that intermediate values stay as small as the result allows
RAdd(a, b) ==
    LET g == GCD(a[2], b[2])
    IN  Norm(a[1] * (b[2] \div g) + b[1] * (a[2] \div g), (a[2] \div g) * b[2])
RNeg(a) == <<-a[1], a[2]>>
RSub(a, b) == RAdd(a, RNeg(b))
RMul(a, b) ==
    LET g1 == GCD(Abs(a[1]), b[2])
        g2 == GCD(Abs(b[1]), a[2])
    IN  Norm((a[1] \div g1) * (b[1] \div g2), (a[2] \div g2) * (b[2] \div g1))
RDiv(a, b) == IF b[1] < 0 THEN RMul(a, <<-b[2], -b[1]>>) ELSE RMul(a, <<b[2], b[1]>>)
RLt(a, b) ==
    LET g == GCD(a[2], b[2])
    IN  a[1] * (b[2] \div g) < b[1] * (a[2] \div g)
RLe(a, b) ==
    LET g == GCD(a[2], b[2])
    IN  a[1] * (b[2] \div g) <= b[1] * (a[2] \div g)
RMax(a, b) == IF RLt(a, b) THEN b ELSE a
RMin(a, b) == IF RLt(b, a) THEN b ELSE a

\* max(0, min(1, x))
Clamp01(x) == RMax(R(0), RMin(R(1), x))

\* <<q, r>> with n * scale = q * d + r and 0 <= r < d, for scale a power of
\* ten, found one decimal digit at a time
RECURSIVE FloorScaled(_, _, _)
FloorScaled(n, d, scale) ==
    IF scale = 1 THEN <<n \div d, n % d>>
    ELSE LET p == FloorScaled(n, d, scale \div 10)
         IN  <<p[1] * 10 + (p[2] * 10) \div d, (p[2] * 10) % d>>

\* round(x, ndigits) with scale = 10^ndigits: nearest multiple of 1/scale,
\* ties to the even multiple
PyRound(x, scale) ==
    LET p == FloorScaled(x[1], x[2], scale)
        q == p[1]
        r == p[2]
        k == IF 2 * r < x[2] THEN q
             ELSE IF 2 * r > x[2] THEN q + 1
             ELSE IF q % 2 = 0 THEN q ELSE q + 1
    IN  Norm(k, scale)

----------------------------------------------------------------------------
(* Python values handed to calculate_price_strength *)

PyNum(v) == [t |-> "num", v |-> v]
PyStr == [t |-> "str", v |-> 0]
PyNone == [t |-> "NoneType", v |-> 0]

\* isinstance(x, (int, float))
IsNumber(x) == x.t = "num"

PyValues == {PyNum(v) : v \in -1..MaxPrice} \cup {PyStr, PyNone}

----------------------------------------------------------------------------
(* 4.1 Range-Position Scorer *)

\* the scorer without its high < low check
calculate_price_strength_unordered(ltp, high, low) ==
    IF ~ (\A x \in {ltp, high, low} : IsNumber(x) /\ x.v > 0) THEN None
    ELSE IF high.v = low.v THEN None
    ELSE Clamp01(RDiv(R(ltp.v - low.v), R(high.v - low.v)))

\* the scorer without its final clamp
calculate_price_strength_unclamped(ltp, high, low) ==
    IF ~ (\A x \in {ltp, high, low} : IsNumber(x) /\ x.v > 0) THEN None
    ELSE IF high.v = low.v THEN None
    ELSE IF high.v < low.v THEN None
    ELSE RDiv(R(ltp.v - low.v), R(high.v - low.v))

calculate_price_strength(ltp, high, low) ==
    IF ~ (\A x \in {ltp, high, low} : IsNumber(x) /\ x.v > 0) THEN None
    ELSE IF high.v = low.v THEN None
    ELSE IF high.v < low.v THEN None
    ELSE LET price_strength == RDiv(R(ltp.v - low.v), R(high.v - low.v))
         IN  Clamp01(price_strength)

----------------------------------------------------------------------------
(* 4.2 Weighted Index Aggregator, price-action variant *)

\* Trading symbols are sequences of chunks, so that str.upper and
\* str.replace act on them as they do on the strings of the token tables
\* (NIFTY_50_FUTURES, BANK_NIFTY_STOCKS, ...).
Symbols ==
    { <<"HDFCBANK", "28OCT25FUT">>, <<"SBIN", "-EQ">>,
      <<"PNB", "28OCT25FUT">>, <<"BANKNIFTY", "28OCT25FUT">> }

\* weights in percent, restricted to the instruments of Symbols
NIFTY_50_WEIGHTS == [HDFCBANK |-> Frac(75, 10), SBIN |-> Frac(32, 10)]
BANK_NIFTY_WEIGHTS == [HDFCBANK |-> Frac(235, 10), SBIN |-> Frac(152, 10)]

WeightTable(index) ==
    IF index = "NIFTY" THEN NIFTY_50_WEIGHTS ELSE BANK_NIFTY_WEIGHTS

\* (ltp, high, low) of a quote as fetch_market_data stores them; 0 is the
\* default of a field missing upstream
QuotePrices ==
    { <<0, 0, 0>>, <<2, 4, 1>>, <<3, 4, 1>>, <<5, 4, 1>>, <<1, 4, 2>>,
      <<3, 3, 3>>, <<2, 1, 2>> }

Quotes ==
    { [symbol |-> s, ltp |-> p[1], high |-> p[2], low |-> p[3]] :
        s \in Symbols, p \in QuotePrices }

\* str.upper on a chunk
Upper(c) ==
    CASE c = "hdfcbank" -> "HDFCBANK"
      [] c = "sbin" -> "SBIN"
      [] c = "-eq" -> "-EQ"
      [] OTHER -> c

\* s.replace(old, ''): every occurrence of the chunk is removed
Replace(s, old) == SelectSeq(s, LAMBDA c : c # old)

\* symbol.upper().replace('28OCT25FUT', '').replace('-EQ', '')
CleanSymbol(symbol) ==
    LET upper == [i \in 1..Len(symbol) |-> Upper(symbol[i])]
    IN  Replace(Replace(upper, "28OCT25FUT"), "-EQ")

\* index_weights.get(clean_symbol, 0)
WeightOf(index_weights, clean_symbol) ==
    IF Len(clean_symbol) = 1 /\ clean_symbol[1] \in DOMAIN index_weights
    THEN index_weights[clean_symbol[1]]
    ELSE R(0)

\* float(x) of a number
PyFloat(x) == PyNum(x)

\* One iteration of the loop over stocks_data: acc is
\* <<total_weighted_strength, total_weights>>.
PriceActionStep(acc, stock, index_weights) ==
    LET clean_symbol == CleanSymbol(stock.symbol)
        ltp == PyFloat(stock.ltp)
        high == PyFloat(stock.high)
        low == PyFloat(stock.low)
        weight == WeightOf(index_weights, clean_symbol)
        price_strength == calculate_price_strength(ltp, high, low)
    IN  IF clean_symbol = <<"BANKNIFTY">> THEN acc
        ELSE IF RLt(R(0), weight) /\ high.v > 0 /\ low.v > 0 /\ ltp.v > 0
                /\ price_strength # None
        THEN <<RAdd(acc[1], RMul(weight, price_strength)), RAdd(acc[2], weight)>>
        ELSE acc

RECURSIVE PriceActionLoop(_, _, _, _)
PriceActionLoop(stocks_data, i, acc, index_weights) ==
    IF i > Len(stocks_data) THEN acc
    ELSE PriceActionLoop(stocks_data, i + 1,
                         PriceActionStep(acc, stocks_data[i], index_weights),
                         index_weights)

\* the average taken over a nominal 100 percent instead of the matched weights
IndexScore_percent(totals) == RDiv(totals[1], R(100))

\* total_weighted_strength / total_weights
IndexScore(totals) == RDiv(totals[1], totals[2])

\* the aggregator answering 0.0 where it has nothing to average
calculate_index_price_action_zero_default(stocks_data, index_weights) ==
    IF stocks_data = <<>> THEN R(0)
    ELSE LET totals == PriceActionLoop(stocks_data, 1, <<R(0), R(0)>>, index_weights)
         IN  IF totals[2] = R(0) THEN R(0)
             ELSE PyRound(IndexScore(totals), 1000)

calculate_index_price_action(stocks_data, index_weights) ==
    IF stocks_data = <<>> THEN None
    ELSE LET totals == PriceActionLoop(stocks_data, 1, <<R(0), R(0)>>, index_weights)
         IN  IF totals[2] = R(0) THEN None
             ELSE PyRound(IndexScore(totals), 1000)

----------------------------------------------------------------------------
(* 4.3 Weighted Index Aggregator, ISS variant *)

\* (netChangeOpnInterest, opnInterest, tradeVolume) of an instrument
NoActivity == <<0, 0, 0>>
OIVolumes ==
    { NoActivity, <<0, 0, 250000>>, <<0, 50, 100000>>, <<1, 50, 0>>,
      <<-1, 10, 100000>> }

\* pcr is None when the instrument carries no 'pcr' key
Instruments ==
    { [weight |-> w, percentChange |-> p, netChangeOpnInterest |-> o[1],
       opnInterest |-> o[2], tradeVolume |-> o[3], pcr |-> c] :
        w \in {R(0), R(1), Frac(5, 2)},
        p \in {R(-3), R(0), R(3)},
        o \in OIVolumes,
        c \in {None, R(1), Frac(13, 10)} }

\* the instruments the model draws: a 'pcr' key only on unit-weight quiet
\* instruments, zero weight only on quiet instruments
MeterInstruments ==
    { s \in Instruments :
        LET quiet == <<s.netChangeOpnInterest, s.opnInterest, s.tradeVolume>>
                        = NoActivity
        IN  IF s.pcr = None THEN s.weight # R(0) \/ quiet
            ELSE s.weight = R(1) /\ quiet }

\* stock.get('pcr', 1.0)
GetPcr(stock) == IF stock.pcr = None THEN R(1) ELSE stock.pcr

\* OI change percentage of one instrument (lines 1443-1456)
OIChange(stock) ==
    LET net_oi_change == stock.netChangeOpnInterest
        current_oi == stock.opnInterest
        volume == stock.tradeVolume
        price_change == stock.percentChange
    IN  IF current_oi > 0 /\ net_oi_change # 0
        THEN RMul(Frac(net_oi_change, current_oi), R(100))
        ELSE IF volume > 0
        THEN LET volume_intensity == Frac(volume, 100000)
             IN  IF price_change # R(0)
                 THEN RMul(volume_intensity, RDiv(price_change, R(10)))
                 ELSE R(0)
        ELSE R(0)

\* PCR of one instrument (lines 1460-1465)
PcrProxy(stock) ==
    LET pcr == GetPcr(stock)
        price_change == stock.percentChange
    IN  IF pcr = R(1)
        THEN IF RLt(R(0), price_change)
             THEN RAdd(Frac(11, 10), RDiv(price_change, R(100)))
             ELSE RAdd(Frac(9, 10), RDiv(price_change, R(100)))
        ELSE pcr

\* One iteration of the loop over market_data: acc is
\* <<weighted_price_change, weighted_oi_change, weighted_pcr, total_weight>>.
MeterStep(acc, stock) ==
    LET weight == stock.weight
    IN  << RAdd(acc[1], RMul(weight, stock.percentChange)),
           RAdd(acc[2], RMul(weight, OIChange(stock))),
           RAdd(acc[3], RMul(weight, PcrProxy(stock))),
           RAdd(acc[4], weight) >>

RECURSIVE MeterLoop(_, _, _)
MeterLoop(market_data, i, acc) ==
    IF i > Len(market_data) THEN acc
    ELSE MeterLoop(market_data, i + 1, MeterStep(acc, market_data[i]))

\* a weighted sum taken over a nominal 100 percent
WeightedAvg_percent(weighted_sum, total_weight) == RDiv(weighted_sum, R(100))

\* weighted_x / total_weight
WeightedAvg(weighted_sum, total_weight) == RDiv(weighted_sum, total_weight)

\* the blend with the OI and PCR shares exchanged
ISSBlend_swapped(norm_price, norm_oi, norm_pcr) ==
    RAdd(RAdd(RMul(Frac(4, 10), norm_price), RMul(Frac(2, 10), norm_oi)),
         RMul(Frac(4, 10), norm_pcr))

\* (0.4 * norm_price) + (0.4 * norm_oi) + (0.2 * norm_pcr)
ISSBlend(norm_price, norm_oi, norm_pcr) ==
    RAdd(RAdd(RMul(Frac(4, 10), norm_price), RMul(Frac(4, 10), norm_oi)),
         RMul(Frac(2, 10), norm_pcr))

\* lines 1476-1500, for a non-zero total weight
ISSOf(acc) ==
    LET avg_price_change == WeightedAvg(acc[1], acc[4])
        avg_oi_change == WeightedAvg(acc[2], acc[4])
        avg_pcr == WeightedAvg(acc[3], acc[4])
        norm_oi == Clamp01(RDiv(RAdd(avg_oi_change, R(5)), R(10)))
        norm_price == Clamp01(RDiv(RAdd(avg_price_change, R(2)), R(4)))
        norm_pcr == Clamp01(RDiv(RSub(avg_pcr, Frac(1, 2)), R(1)))
    IN  Clamp01(ISSBlend(norm_price, norm_oi, norm_pcr))

MeterStart == <<R(0), R(0), R(0), R(0)>>

\* the aggregator answering None where it has nothing to average
calculate_meter_value_none_default(market_data) ==
    IF market_data = <<>> THEN None
    ELSE LET acc == MeterLoop(market_data, 1, MeterStart)
         IN  IF acc[4] = R(0) THEN None ELSE ISSOf(acc)

calculate_meter_value(market_data) ==
    IF market_data = <<>> THEN R(0)
    ELSE LET acc == MeterLoop(market_data, 1, MeterStart)
         IN  IF acc[4] = R(0) THEN R(0) ELSE ISSOf(acc)

----------------------------------------------------------------------------
(* 4.4 Zone Classifier *)

\* price-action zones with exclusive upper boundaries
get_price_action_zone_exclusive(score) ==
    IF RLt(score, Frac(2, 10)) THEN [zone |-> "Deep Bear", color |-> "danger"]
    ELSE IF RLt(score, Frac(4, 10)) THEN [zone |-> "Weak", color |-> "warning"]
    ELSE IF RLt(score, Frac(6, 10)) THEN [zone |-> "Neutral", color |-> "secondary"]
    ELSE IF RLt(score, Frac(8, 10)) THEN [zone |-> "Bullish", color |-> "success"]
    ELSE [zone |-> "Strong Bull", color |-> "info"]

get_price_action_zone(score) ==
    IF RLe(score, Frac(2, 10)) THEN [zone |-> "Deep Bear", color |-> "danger"]
    ELSE IF RLe(score, Frac(4, 10)) THEN [zone |-> "Weak", color |-> "warning"]
    ELSE IF RLe(score, Frac(6, 10)) THEN [zone |-> "Neutral", color |-> "secondary"]
    ELSE IF RLe(score, Frac(8, 10)) THEN [zone |-> "Bullish", color |-> "success"]
    ELSE [zone |-> "Strong Bull", color |-> "info"]

\* ISS statuses with the lower boundary of the top band exclusive
get_meter_status_exclusive(iss_score) ==
    IF RLt(Frac(75, 100), iss_score) /\ RLe(iss_score, R(1))
    THEN [status |-> "Strong Bullish", color |-> "success"]
    ELSE IF RLe(Frac(60, 100), iss_score) /\ RLt(iss_score, Frac(75, 100))
    THEN [status |-> "Mild Bullish", color |-> "info"]
    ELSE IF RLe(Frac(40, 100), iss_score) /\ RLt(iss_score, Frac(60, 100))
    THEN [status |-> "Neutral", color |-> "secondary"]
    ELSE IF RLe(Frac(25, 100), iss_score) /\ RLt(iss_score, Frac(40, 100))
    THEN [status |-> "Mild Bearish", color |-> "warning"]
    ELSE [status |-> "Strong Bearish", color |-> "danger"]

get_meter_status(iss_score) ==
    IF RLe(Frac(75, 100), iss_score) /\ RLe(iss_score, R(1))
    THEN [status |-> "Strong Bullish", color |-> "success"]
    ELSE IF RLe(Frac(60, 100), iss_score) /\ RLt(iss_score, Frac(75, 100))
    THEN [status |-> "Mild Bullish", color |-> "info"]
    ELSE IF RLe(Frac(40, 100), iss_score) /\ RLt(iss_score, Frac(60, 100))
    THEN [status |-> "Neutral", color |-> "secondary"]
    ELSE IF RLe(Frac(25, 100), iss_score) /\ RLt(iss_score, Frac(40, 100))
    THEN [status |-> "Mild Bearish", color |-> "warning"]
    ELSE [status |-> "Strong Bearish", color |-> "danger"]

----------------------------------------------------------------------------
(* 4.6 Signal Generator *)

buy_threshold == Frac(65, 100)
sell_threshold == Frac(35, 100)
momentum_threshold == Frac(5, 100)

\* the generator with BUY and SELL decided by the zone alone
generate_composite_signal_no_crossing(current_value, prev_value, momentum) ==
    IF RLe(buy_threshold, current_value) /\ RLt(prev_value, buy_threshold)
       /\ RLt(momentum_threshold, momentum)
    THEN [action |-> "STRONG_BUY", confidence |-> "High"]
    ELSE IF RLe(current_value, sell_threshold) /\ RLt(sell_threshold, prev_value)
            /\ RLt(momentum, RNeg(momentum_threshold))
    THEN [action |-> "STRONG_SELL", confidence |-> "High"]
    ELSE IF RLe(buy_threshold, current_value)
    THEN [action |-> "BUY", confidence |-> "Medium"]
    ELSE IF RLe(current_value, sell_threshold)
    THEN [action |-> "SELL", confidence |-> "Medium"]
    ELSE IF RLt(buy_threshold, current_value)
    THEN [action |-> "HOLD_LONG", confidence |-> "Medium"]
    ELSE IF RLt(current_value, sell_threshold)
    THEN [action |-> "HOLD_SHORT", confidence |-> "Medium"]
    ELSE [action |-> "NEUTRAL", confidence |-> "Low"]

\* the generator taking a previous value on the threshold for one beyond it
generate_composite_signal_prev_inclusive(current_value, prev_value, momentum) ==
    IF RLe(buy_threshold, current_value) /\ RLe(prev_value, buy_threshold)
       /\ RLt(momentum_threshold, momentum)
    THEN [action |-> "STRONG_BUY", confidence |-> "High"]
    ELSE IF RLe(current_value, sell_threshold) /\ RLe(sell_threshold, prev_value)
            /\ RLt(momentum, RNeg(momentum_threshold))
    THEN [action |-> "STRONG_SELL", confidence |-> "High"]
    ELSE IF RLe(buy_threshold, current_value) /\ RLe(prev_value, buy_threshold)
    THEN [action |-> "BUY", confidence |-> "Medium"]
    ELSE IF RLe(current_value, sell_threshold) /\ RLe(sell_threshold, prev_value)
    THEN [action |-> "SELL", confidence |-> "Medium"]
    ELSE IF RLt(buy_threshold, current_value)
    THEN [action |-> "HOLD_LONG", confidence |-> "Medium"]
    ELSE IF RLt(current_value, sell_threshold)
    THEN [action |-> "HOLD_SHORT", confidence |-> "Medium"]
    ELSE [action |-> "NEUTRAL", confidence |-> "Low"]

generate_composite_signal(current_value, prev_value, momentum) ==
    IF RLe(buy_threshold, current_value) /\ RLt(prev_value, buy_threshold)
       /\ RLt(momentum_threshold, momentum)
    THEN [action |-> "STRONG_BUY", confidence |-> "High"]
    ELSE IF RLe(current_value, sell_threshold) /\ RLt(sell_threshold, prev_value)
            /\ RLt(momentum, RNeg(momentum_threshold))
    THEN [action |-> "STRONG_SELL", confidence |-> "High"]
    ELSE IF RLe(buy_threshold, current_value) /\ RLt(prev_value, buy_threshold)
    THEN [action |-> "BUY", confidence |-> "Medium"]
    ELSE IF RLe(current_value, sell_threshold) /\ RLt(sell_threshold, prev_value)
    THEN [action |-> "SELL", confidence |-> "Medium"]
    ELSE IF RLt(buy_threshold, current_value)
    THEN [action |-> "HOLD_LONG", confidence |-> "Medium"]
    ELSE IF RLt(current_value, sell_threshold)
    THEN [action |-> "HOLD_SHORT", confidence |-> "Medium"]
    ELSE [action |-> "NEUTRAL", confidence |-> "Low"]

----------------------------------------------------------------------------
(* Server state *)

PyList(l) == [t |-> "list", v |-> l]

\* the futures tokens whose previous-day OI is asked for; an entry of
\* historical_oi_cache is None while the token has no key in it
OITokens == {"52364", "52430"}

\* the module-level cached_data before the first refresh
InitialCache ==
    [ nifty_50 |-> PyNone, bank_nifty |-> PyNone, pcr_data |-> PyNone,
      nifty_futures |-> PyNone, bank_futures |-> PyNone,
      last_update |-> PyNone, auth_token |-> PyNone,
      historical_oi_cache |-> [token \in OITokens |-> None] ]

----------------------------------------------------------------------------
(* Specification: every behaviour is one call of one function.  Init draws *)
(* the function and its arguments, the action applies it.                  *)

StrengthArgs == PyValues \X PyValues \X PyValues

\* all lists of at most n elements of S
ListsOf(S, n) == UNION {[1..k -> S] : k \in 0..n}

\* price-action scores carry 3 decimals (round(index_score, 3)); the probes
\* lie within 0.0000001 of a boundary
ZoneScores ==
    {Frac(i, 1000) : i \in 0..1000}
        \cup {Frac(10000000 * b + e, 50000000) : b \in 1..4, e \in {-5, 5}}

\* ISS values in steps of 0.01, some of them outside [0,1]
StatusScores ==
    {Frac(i, 100) : i \in -10..110}
        \cup {Frac(7499, 10000), Frac(10001, 10000)}

\* composite values and momenta on and next to the thresholds
SignalValues == {Frac(i, 100) : i \in {0, 20, 34, 35, 36, 50, 64, 65, 66, 80, 100}}
SignalMomenta == {Frac(i, 100) : i \in {-100, -6, -5, -4, 0, 4, 5, 6, 100}}
SignalArgs == SignalValues \X SignalValues \X SignalMomenta

MeterArgs == ListsOf(MeterInstruments, MaxStocks)

PriceActionArgs == ListsOf(Quotes, MaxStocks) \X {"NIFTY", "BANK"}

Init ==
    /\ pc = "call"
    /\ ret = None
    /\ sheet = <<>>
    /\ now = 0
    /\ cached_data = InitialCache
    /\ GOOGLE_SHEETS_ENABLED = TRUE
    /\ \/ fn = "calculate_price_strength" /\ args \in StrengthArgs
       \/ fn = "get_price_action_zone" /\ args \in ZoneScores
       \/ fn = "get_meter_status" /\ args \in StatusScores
       \/ fn = "generate_composite_signal" /\ args \in SignalArgs
       \/ fn = "calculate_meter_value" /\ args \in MeterArgs
       \/ fn = "calculate_index_price_action" /\ args \in PriceActionArgs

CallPriceStrength ==
    /\ pc = "call"
    /\ fn = "calculate_price_strength"
    /\ ret' = calculate_price_strength(args[1], args[2], args[3])
    /\ pc' = "done"
    /\ UNCHANGED <<fn, args, server>>

CallIndexPriceAction ==
    /\ pc = "call"
    /\ fn = "calculate_index_price_action"
    /\ ret' = calculate_index_price_action(args[1], WeightTable(args[2]))
    /\ pc' = "done"
    /\ UNCHANGED <<fn, args, server>>

CallMeterValue ==
    /\ pc = "call"
    /\ fn = "calculate_meter_value"
    /\ ret' = calculate_meter_value(args)
    /\ pc' = "done"
    /\ UNCHANGED <<fn, args, server>>

CallPriceActionZone ==
    /\ pc = "call"
    /\ fn = "get_price_action_zone"
    /\ ret' = get_price_action_zone(args)
    /\ pc' = "done"
    /\ UNCHANGED <<fn, args, server>>

CallMeterStatus ==
    /\ pc = "call"
    /\ fn = "get_meter_status"
    /\ ret' = get_meter_status(args)
    /\ pc' = "done"
    /\ UNCHANGED <<fn, args, server>>

CallCompositeSignal ==
    /\ pc = "call"
    /\ fn = "generate_composite_signal"
    /\ ret' = generate_composite_signal(args[1], args[2], args[3])
    /\ pc' = "done"
    /\ UNCHANGED <<fn, args, server>>

Next ==
    \/ CallPriceStrength
    \/ CallPriceActionZone
    \/ CallMeterStatus
    \/ CallCompositeSignal
    \/ CallMeterValue
    \/ CallIndexPriceAction

Spec == Init /\ [][Next]_vars

----------------------------------------------------------------------------
(* Claims about the Range-Position Scorer *)

Returned(f) == pc = "done" /\ fn = f

\* the claim's cases in which the scorer has no result
StrengthUndefined(ltp, high, low) ==
    \/ \E x \in {ltp, high, low} : ~IsNumber(x) \/ x.v <= 0
    \/ high.v = low.v
    \/ high.v < low.v

\* C1: calculate_price_strength returns None whenever an input is non-numeric
\* or <= 0, whenever high == low and whenever high < low, and a number for
\* every other input.
C1_NoneExactlyOnInvalidInput ==
    Returned("calculate_price_strength") =>
        IF StrengthUndefined(args[1], args[2], args[3])
        THEN ret = None
        ELSE Len(ret) = 2 /\ ret[2] > 0

\* a call with positive numbers and high < low has returned None
C1_Witness ==
    /\ Returned("calculate_price_strength")
    /\ \A i \in 1..3 : IsNumber(args[i]) /\ args[i].v > 0
    /\ args[2].v < args[3].v
    /\ ret = None

ValidRange(a) ==
    /\ \A i \in 1..3 : IsNumber(a[i])
    /\ a[1].v > 0
    /\ a[3].v > 0
    /\ a[2].v > a[3].v

\* C2: for high > low > 0 and last > 0 the result is
\* clamp((last - low) / (high - low), 0, 1): it lies in [0,1], and it does not
\* decrease when last grows with high and low fixed.
C2_ClampedRangePosition ==
    (Returned("calculate_price_strength") /\ ValidRange(args)) =>
        LET last == args[1].v
            high == args[2].v
            low == args[3].v
        IN  /\ ret # None
            /\ IF last <= low THEN ret = R(0)
               ELSE IF last >= high THEN ret = R(1)
               ELSE ret[1] * (high - low) = (last - low) * ret[2]
            /\ RLe(R(0), ret) /\ RLe(ret, R(1))
            /\ \A last2 \in last..MaxPrice :
                  RLe(ret, calculate_price_strength(PyNum(last2), args[2], args[3]))

\* a call strictly inside the range has returned a value strictly inside (0,1)
C2_Witness ==
    /\ Returned("calculate_price_strength")
    /\ ValidRange(args)
    /\ args[3].v < args[1].v /\ args[1].v < args[2].v
    /\ RLt(R(0), ret) /\ RLt(ret, R(1))

----------------------------------------------------------------------------
(* Claims about the price-action aggregator *)

\* the claim's inclusion rule for one quote
Included(stock, index_weights) ==
    LET clean == CleanSymbol(stock.symbol)
    IN  /\ clean # <<"BANKNIFTY">>
        /\ RLt(R(0), WeightOf(index_weights, clean))
        /\ stock.ltp > 0 /\ stock.high > 0 /\ stock.low > 0
        /\ calculate_price_strength(PyNum(stock.ltp), PyNum(stock.high),
                                    PyNum(stock.low)) # None

StrengthOfQuote(stock) ==
    calculate_price_strength(PyNum(stock.ltp), PyNum(stock.high), PyNum(stock.low))

IncludedIdx(stocks_data, index_weights) ==
    {i \in 1..Len(stocks_data) : Included(stocks_data[i], index_weights)}

\* C3: calculate_index_price_action returns a score if and only if at least
\* one quote is included; with no included quote (empty input, only unmapped
\* instruments, zero total weight) it returns None, never 0.0.
C3_ScoreIffSomeQuoteIncluded ==
    Returned("calculate_index_price_action") =>
        LET inc == IncludedIdx(args[1], WeightTable(args[2]))
        IN  /\ (ret # None) <=> (inc # {})
            /\ (inc = {}) => (ret = None /\ ret # R(0))

\* a non-empty list with no included quote has returned None
C3_Witness ==
    /\ Returned("calculate_index_price_action")
    /\ Len(args[1]) > 0
    /\ IncludedIdx(args[1], WeightTable(args[2])) = {}
    /\ \E i \in 1..Len(args[1]) : args[1][i].ltp > 0
    /\ ret = None

\* C4 as stated: the returned (rounded) score is never below the minimum nor
\* above the maximum strength of the included constituents.
C4_RoundedScoreWithinMinMax ==
    (Returned("calculate_index_price_action") /\ ret # None) =>
        LET w == WeightTable(args[2])
            inc == IncludedIdx(args[1], w)
        IN  /\ \E i \in inc : RLe(StrengthOfQuote(args[1][i]), ret)
            /\ \E i \in inc : RLe(ret, StrengthOfQuote(args[1][i]))

\* the returned score in thousandths
Thousandths(score) == score[1] * (1000 \div score[2])

\* C4 amended: the weighted average before rounding lies within the minimum
\* and maximum included strength, and the returned score is that average
\* rounded to 3 decimals, so it is within 0.0005 of [min, max].
C4_ScoreWithinMinMaxUpToRounding ==
    (Returned("calculate_index_price_action") /\ ret # None) =>
        LET w == WeightTable(args[2])
            inc == IncludedIdx(args[1], w)
            totals == PriceActionLoop(args[1], 1, <<R(0), R(0)>>, w)
            avg == RDiv(totals[1], totals[2])
            k == Thousandths(ret)
            diff == 1000 * avg[1] - k * avg[2]
        IN  /\ \E i \in inc : RLe(StrengthOfQuote(args[1][i]), avg)
            /\ \E i \in inc : RLe(avg, StrengthOfQuote(args[1][i]))
            /\ 1000 % ret[2] = 0
            /\ 2 * Abs(diff) <= avg[2]
            /\ \E i \in inc :
                  LET s == StrengthOfQuote(args[1][i])
                  IN  2000 * s[1] - s[2] <= 2 * k * s[2]
            /\ \E i \in inc :
                  LET s == StrengthOfQuote(args[1][i])
                  IN  2 * k * s[2] <= 2000 * s[1] + s[2]

\* a returned score that rounding has put strictly below every included
\* strength
C4_Witness ==
    /\ Returned("calculate_index_price_action")
    /\ ret # None
    /\ \A i \in IncludedIdx(args[1], WeightTable(args[2])) :
          RLt(ret, StrengthOfQuote(args[1][i]))

----------------------------------------------------------------------------
(* Claims about the ISS aggregator *)

RECURSIVE RSum(_)
RSum(seq) == IF seq = <<>> THEN R(0) ELSE RAdd(seq[1], RSum(Tail(seq)))

SumWeights(market_data) ==
    RSum([i \in 1..Len(market_data) |-> market_data[i].weight])

\* C5: calculate_meter_value returns exactly 0.0, never None, when
\* market_data is empty or the instruments' weights total 0.
C5_ZeroOnEmptyOrZeroWeight ==
    (Returned("calculate_meter_value")
        /\ (Len(args) = 0 \/ SumWeights(args) = R(0))) =>
        ret = R(0) /\ ret # None

\* a list of zero-weight instruments with a price move has returned 0.0
C5_Witness ==
    /\ Returned("calculate_meter_value")
    /\ Len(args) > 0
    /\ SumWeights(args) = R(0)
    /\ \E i \in 1..Len(args) : args[i].percentChange # R(0)
    /\ ret = R(0)

ScaleFactors == {R(2), R(3), Frac(1, 2), Frac(7, 10)}

ScaleWeights(market_data, k) ==
    [i \in 1..Len(market_data) |->
        [market_data[i] EXCEPT !.weight = RMul(k, market_data[i].weight)]]

\* C6: with a non-zero total weight, multiplying every instrument's weight by
\* the same k > 0 leaves the ISS unchanged.
C6_InvariantUnderWeightScaling ==
    (Returned("calculate_meter_value") /\ SumWeights(args) # R(0)) =>
        \A k \in ScaleFactors :
            calculate_meter_value(ScaleWeights(args, k)) = ret

\* two instruments of different weight and price move gave an ISS strictly
\* inside (0,1)
C6_Witness ==
    /\ Returned("calculate_meter_value")
    /\ Len(args) = 2
    /\ args[1].weight # R(0) /\ args[2].weight # R(0)
    /\ args[1].weight # args[2].weight
    /\ args[1].percentChange # args[2].percentChange
    /\ RLt(R(0), ret) /\ RLt(ret, R(1))

\* the claim's OI percentage of one instrument
ClaimOIPct(stock) ==
    IF stock.opnInterest > 0 /\ stock.netChangeOpnInterest # 0
    THEN Frac(100 * stock.netChangeOpnInterest, stock.opnInterest)
    ELSE IF stock.tradeVolume > 0
    THEN RMul(Frac(stock.tradeVolume, 100000),
              RMul(stock.percentChange, Frac(1, 10)))
    ELSE R(0)

\* the claim's PCR of one instrument
ClaimPcr(stock) ==
    IF stock.pcr # None /\ stock.pcr # R(1) THEN stock.pcr
    ELSE IF stock.percentChange[1] > 0
    THEN RAdd(Frac(110, 100), RMul(stock.percentChange, Frac(1, 100)))
    ELSE RAdd(Frac(90, 100), RMul(stock.percentChange, Frac(1, 100)))

\* C7: with a non-zero total weight the ISS is
\* clamp01(0.4*clamp01((avgPrice+2)/4) + 0.4*clamp01((avgOI+5)/10)
\*         + 0.2*clamp01(avgPcr-0.5)),
\* the averages weighted over all instruments, with the claim's per-instrument
\* OI percentage and PCR.
C7_ISSFormula ==
    (Returned("calculate_meter_value") /\ SumWeights(args) # R(0)) =>
        LET n == Len(args)
            total == SumWeights(args)
            avgPrice == RDiv(RSum([i \in 1..n |->
                            RMul(args[i].weight, args[i].percentChange)]), total)
            avgOI == RDiv(RSum([i \in 1..n |->
                            RMul(args[i].weight, ClaimOIPct(args[i]))]), total)
            avgPcr == RDiv(RSum([i \in 1..n |->
                            RMul(args[i].weight, ClaimPcr(args[i]))]), total)
            normPrice == Clamp01(RMul(RAdd(avgPrice, R(2)), Frac(1, 4)))
            normOI == Clamp01(RMul(RAdd(avgOI, R(5)), Frac(1, 10)))
            normPcr == Clamp01(RSub(avgPcr, Frac(1, 2)))
        IN  ret = Clamp01(RAdd(RAdd(RMul(Frac(2, 5), normPrice),
                                    RMul(Frac(2, 5), normOI)),
                               RMul(Frac(1, 5), normPcr)))

\* an instrument with measured OI and one on the volume proxy were averaged
C7_Witness ==
    /\ Returned("calculate_meter_value")
    /\ Len(args) = 2
    /\ \E i \in 1..2 : args[i].opnInterest > 0 /\ args[i].netChangeOpnInterest # 0
    /\ \E i \in 1..2 : /\ args[i].netChangeOpnInterest = 0
                       /\ args[i].tradeVolume > 0
                       /\ args[i].percentChange # R(0)
    /\ RLt(R(0), ret) /\ RLt(ret, R(1))

----------------------------------------------------------------------------
(* Claims about the Zone Classifier *)

\* C8: get_price_action_zone maps every score of [0,1] to exactly one of five
\* bands, each band including its upper boundary: <= 0.2 Deep Bear, <= 0.4
\* Weak, <= 0.6 Neutral, <= 0.8 Bullish, else Strong Bull; 0.2 is Deep Bear
\* and a score just above 0.2 is Weak.
C8_ZoneBands ==
    Returned("get_price_action_zone") =>
        LET n == args[1]
            d == args[2]
        IN  /\ ret.zone \in {"Deep Bear", "Weak", "Neutral", "Bullish", "Strong Bull"}
            /\ (ret.zone = "Deep Bear") <=> (5 * n <= d)
            /\ (ret.zone = "Weak") <=> (d < 5 * n /\ 5 * n <= 2 * d)
            /\ (ret.zone = "Neutral") <=> (2 * d < 5 * n /\ 5 * n <= 3 * d)
            /\ (ret.zone = "Bullish") <=> (3 * d < 5 * n /\ 5 * n <= 4 * d)
            /\ (ret.zone = "Strong Bull") <=> (4 * d < 5 * n)

\* the score 0.2000001 has been classified as Weak
C8_Witness ==
    /\ Returned("get_price_action_zone")
    /\ args = <<2000001, 10000000>>
    /\ ret.zone = "Weak"

StatusRank(status) ==
    CASE status = "Strong Bearish" -> 0
      [] status = "Mild Bearish" -> 1
      [] status = "Neutral" -> 2
      [] status = "Mild Bullish" -> 3
      [] status = "Strong Bullish" -> 4

InUnit(x) == RLe(R(0), x) /\ RLe(x, R(1))

\* C9: get_meter_status maps every score to exactly one status: [0.75,1.0]
\* Strong Bullish, [0.60,0.75) Mild Bullish, [0.40,0.60) Neutral, [0.25,0.40)
\* Mild Bearish, Strong Bearish otherwise; within [0,1] a higher score never
\* gets a more bearish status.
C9_StatusBands ==
    Returned("get_meter_status") =>
        LET n == args[1]
            d == args[2]
        IN  /\ (ret.status = "Strong Bullish") <=> (3 * d <= 4 * n /\ n <= d)
            /\ (ret.status = "Mild Bullish") <=> (3 * d <= 5 * n /\ 4 * n < 3 * d)
            /\ (ret.status = "Neutral") <=> (2 * d <= 5 * n /\ 5 * n < 3 * d)
            /\ (ret.status = "Mild Bearish") <=> (d <= 4 * n /\ 5 * n < 2 * d)
            /\ (ret.status = "Strong Bearish") <=> (4 * n < d \/ d < n)
            /\ InUnit(args) =>
                  \A s \in StatusScores :
                      (InUnit(s) /\ RLe(args, s)) =>
                          StatusRank(ret.status) <= StatusRank(get_meter_status(s).status)

\* the boundary score 0.75 has been classified as Strong Bullish
C9_Witness ==
    /\ Returned("get_meter_status")
    /\ args = <<3, 4>>
    /\ ret.status = "Strong Bullish"

----------------------------------------------------------------------------
(* Claims about the Signal Generator *)

\* C10: generate_composite_signal returns the action of the first matching
\* rule: (1) crossing up with momentum > 0.05 STRONG_BUY, (2) crossing down
\* with momentum < -0.05 STRONG_SELL, (3) crossing up BUY, (4) crossing down
\* SELL, (5) current > 0.65 HOLD_LONG, (6) current < 0.35 HOLD_SHORT,
\* (7) otherwise NEUTRAL; exactly one action for every input.
C10_FirstMatchingRule ==
    Returned("generate_composite_signal") =>
        LET cur == args[1][1] * 100
            cd == args[1][2]
            prev == args[2][1] * 100
            pd == args[2][2]
            mom == args[3][1] * 100
            md == args[3][2]
            r1 == cur >= 65 * cd /\ prev < 65 * pd /\ mom > 5 * md
            r2 == cur <= 35 * cd /\ prev > 35 * pd /\ mom < -5 * md
            r3 == cur >= 65 * cd /\ prev < 65 * pd
            r4 == cur <= 35 * cd /\ prev > 35 * pd
            r5 == cur > 65 * cd
            r6 == cur < 35 * cd
        IN  /\ (ret.action = "STRONG_BUY") <=> r1
            /\ (ret.action = "STRONG_SELL") <=> (~r1 /\ r2)
            /\ (ret.action = "BUY") <=> (~r1 /\ ~r2 /\ r3)
            /\ (ret.action = "SELL") <=> (~r1 /\ ~r2 /\ ~r3 /\ r4)
            /\ (ret.action = "HOLD_LONG") <=> (~r1 /\ ~r2 /\ ~r3 /\ ~r4 /\ r5)
            /\ (ret.action = "HOLD_SHORT") <=>
                  (~r1 /\ ~r2 /\ ~r3 /\ ~r4 /\ ~r5 /\ r6)
            /\ (ret.action = "NEUTRAL") <=>
                  (~r1 /\ ~r2 /\ ~r3 /\ ~r4 /\ ~r5 /\ ~r6)

\* a value staying above the buy threshold with strong momentum got HOLD_LONG
C10_Witness ==
    /\ Returned("generate_composite_signal")
    /\ RLt(buy_threshold, args[1]) /\ RLt(buy_threshold, args[2])
    /\ RLt(momentum_threshold, args[3])
    /\ ret.action = "HOLD_LONG"

----------------------------------------------------------------------------
(* The signal generator driven by a stream of composite values: at every  *)
(* step the previous value is the current value of the step before, as in *)
(* the composite variants (normalized[-1], normalized[-2]).                *)

StreamInit ==
    /\ pc = "stream"
    /\ fn = "generate_composite_signal"
    /\ \E v \in SignalValues : args = <<v>>
    /\ ret = None
    /\ sheet = <<>>
    /\ now = 0
    /\ cached_data = InitialCache
    /\ GOOGLE_SHEETS_ENABLED = TRUE

StreamStep ==
    /\ pc = "stream"
    /\ \E v \in SignalValues, m \in SignalMomenta :
          /\ args' = <<v, args[1], m>>
          /\ ret' = generate_composite_signal(v, args[1], m)
    /\ UNCHANGED <<fn, pc, server>>

StreamNext == StreamStep

StreamSpec == StreamInit /\ [][StreamNext]_vars

BuyActions == {"BUY", "STRONG_BUY"}
SellActions == {"SELL", "STRONG_SELL"}

\* a signal has been emitted for the current step
Emitted == pc = "stream" /\ Len(args) = 3

\* C11: over a stream of composite values with arbitrary momenta, BUY or
\* STRONG_BUY is emitted at a step only if the value crossed to >= 0.65 from
\* below at that step, and SELL or STRONG_SELL only if it crossed to <= 0.35
\* from above; a step that follows a value at or above 0.65 with another one
\* never emits BUY or STRONG_BUY (symmetrically at or below 0.35).
C11_SignalOnlyOnCrossing ==
    /\ [](Emitted =>
            /\ ret.action \in BuyActions =>
                  RLt(args[2], buy_threshold) /\ RLe(buy_threshold, args[1])
            /\ ret.action \in SellActions =>
                  RLt(sell_threshold, args[2]) /\ RLe(args[1], sell_threshold))
    /\ [][pc = "stream" =>
            /\ (RLe(buy_threshold, args[1]) /\ RLe(buy_threshold, args'[1]))
                  => ret'.action \notin BuyActions
            /\ (RLe(args[1], sell_threshold) /\ RLe(args'[1], sell_threshold))
                  => ret'.action \notin SellActions]_vars

\* a BUY was emitted on the crossing and the value has stayed above since,
\* now answered by HOLD_LONG
C11_Witness ==
    /\ Emitted
    /\ RLe(buy_threshold, args[2]) /\ RLt(buy_threshold, args[1])
    /\ ret.action = "HOLD_LONG"

----------------------------------------------------------------------------
(* History store: the rows of the spreadsheet and the two functions that  *)
(* write and read them.  Times are minutes since midnight of day 0 (IST). *)

\* the most points get_historical_data returns (filtered_data[-100:])
HistoryLimit == 100

HourOf(time) == (time \div 60) % 24
MinuteOfDay(time) == time % 1440

\* Cells as get_all_values returns them: every cell is a string.
\*   EmptyCell       ''
\*   NumCell(x)      the decimal text of the number x
\*   TimeCell(time)  '%Y-%m-%d %H:%M:%S' of time
\*   ClockCell(m)    '%H:%M' of minute m of the day
\*   TextCell(s)     any other text
EmptyCell == [t |-> "empty", v |-> 0]
NumCell(x) == [t |-> "num", v |-> x]
TimeCell(time) == [t |-> "time", v |-> time]
ClockCell(m) == [t |-> "clock", v |-> m]
TextCell(s) == [t |-> "text", v |-> s]

\* bool(cell)
Truthy(cell) == cell.t # "empty"

\* row[k] with Python's index
Cell(row, k) == row[k + 1]

\* the session of lines 169-178
SessionOf(hour) ==
    IF 9 <= hour /\ hour < 12 THEN "Morning"
    ELSE IF 12 <= hour /\ hour < 15 THEN "Afternoon"
    ELSE IF 15 <= hour /\ hour < 16 THEN "Closing"
    ELSE "After Hours"

\* a missing score written as the neutral 0.5
PriceActionCell_neutral(price_action) ==
    IF price_action # None THEN NumCell(PyRound(price_action, 10000))
    ELSE NumCell(Frac(1, 2))

\* what append_row writes for a price-action score
PriceActionCell(price_action) ==
    IF price_action # None THEN NumCell(PyRound(price_action, 10000)) ELSE EmptyCell

\* cached_data.get(key, []) or []
CachedList(cache, key) == IF cache[key].t = "list" THEN cache[key].v ELSE <<>>

\* The row append_historical_data appends (lines 146-193), given the
\* scores handed in, the shared cache and the clock.
append_historical_data(nifty_iss, bank_iss, nifty_arg, bank_arg, cache, time) ==
    LET recompute == nifty_arg = None \/ bank_arg = None
        nifty_price_action ==
            IF recompute
            THEN calculate_index_price_action(CachedList(cache, "nifty_futures"),
                                              NIFTY_50_WEIGHTS)
            ELSE nifty_arg
        bank_price_action ==
            IF recompute
            THEN calculate_index_price_action(CachedList(cache, "bank_futures"),
                                              BANK_NIFTY_WEIGHTS)
            ELSE bank_arg
        missing == nifty_price_action = None \/ bank_price_action = None
        nifty_pa_zone ==
            IF missing THEN "Neutral" ELSE get_price_action_zone(nifty_price_action).zone
        bank_pa_zone ==
            IF missing THEN "Neutral" ELSE get_price_action_zone(bank_price_action).zone
    IN  << TimeCell(time), ClockCell(MinuteOfDay(time)),
           NumCell(PyRound(nifty_iss, 10000)), NumCell(PyRound(bank_iss, 10000)),
           TextCell(get_meter_status(nifty_iss).status),
           TextCell(get_meter_status(bank_iss).status),
           TextCell(SessionOf(HourOf(time))),
           PriceActionCell(nifty_price_action), PriceActionCell(bank_price_action),
           TextCell(nifty_pa_zone), TextCell(bank_pa_zone) >>

\* A Python list or pandas Series: the values of f, each evaluated once.
\* A series derived from another shares its index (DOMAIN).
Series(f) == SubSeq(f, 1, Len(f))

\* the row is skipped by the loop of get_historical_data (lines 236-261):
\* too short, no timestamp, strptime or float raising ValueError, older than
\* the cutoff, or an ISS cell empty
RowSkipped(row, cutoff_time) ==
    \/ Len(row) < 4
    \/ ~Truthy(Cell(row, 0))
    \/ Cell(row, 0).t # "time"
    \/ Cell(row, 0).v < cutoff_time
    \/ ~Truthy(Cell(row, 2)) \/ ~Truthy(Cell(row, 3))
    \/ Cell(row, 2).t # "num" \/ Cell(row, 3).t # "num"

\* row[k] if len(row) > k and row[k] else default
CellOr(row, k, default) ==
    IF Len(row) > k /\ Truthy(Cell(row, k)) THEN Cell(row, k) ELSE default

\* float(row[k]) under try/except, None when the cell is absent, empty or
\* not a number (lines 272-282)
PriceActionOf(row, k) ==
    IF Len(row) > k /\ Truthy(Cell(row, k)) /\ Cell(row, k).t = "num"
    THEN Cell(row, k).v
    ELSE None

\* the dictionary appended to filtered_data (lines 290-302)
HistoryPoint(row) ==
    [ timestamp |-> CellOr(row, 1, ClockCell(MinuteOfDay(Cell(row, 0).v))),
      time_full |-> Cell(row, 0).v,
      nifty_iss |-> Cell(row, 2).v,
      bank_iss |-> Cell(row, 3).v,
      nifty_status |-> CellOr(row, 4, TextCell("Neutral")),
      bank_status |-> CellOr(row, 5, TextCell("Neutral")),
      session |-> CellOr(row, 6, TextCell("Unknown")),
      nifty_price_action |-> PriceActionOf(row, 7),
      bank_price_action |-> PriceActionOf(row, 8),
      nifty_pa_zone |-> CellOr(row, 9, TextCell("Neutral")),
      bank_pa_zone |-> CellOr(row, 10, TextCell("Neutral")) ]

\* filtered_data after the loop over data_rows (lines 234-307): the point of
\* every row that is not skipped, in the order of the rows
HistoryLoop(data_rows, cutoff_time) ==
    LET read == SelectSeq(data_rows, LAMBDA row : ~RowSkipped(row, cutoff_time))
    IN  Series([i \in DOMAIN read |-> HistoryPoint(read[i])])

\* seq[:n]
LastN_head(seq, n) ==
    IF Len(seq) <= n THEN seq ELSE SubSeq(seq, 1, n)

\* seq[-n:]
LastN(seq, n) ==
    IF Len(seq) <= n THEN seq ELSE SubSeq(seq, Len(seq) - n + 1, Len(seq))

\* get_historical_data if the except of lines 303-305 were not there: the
\* ValueError of a row reaches the except of lines 320-322
get_historical_data_fatal(hours_back, data_rows, time, enabled) ==
    IF ~enabled THEN <<>>
    ELSE IF Len(data_rows) < 1 THEN <<>>
    ELSE IF \E i \in DOMAIN data_rows :
                /\ Len(data_rows[i]) >= 4
                /\ Truthy(Cell(data_rows[i], 0))
                /\ \/ Cell(data_rows[i], 0).t # "time"
                   \/ Cell(data_rows[i], 2).t = "text"
                   \/ Cell(data_rows[i], 3).t = "text"
         THEN <<>>
    ELSE LastN(HistoryLoop(data_rows, time - hours_back * 60), HistoryLimit)

\* get_historical_data over the data rows of the sheet
get_historical_data(hours_back, data_rows, time, enabled) ==
    IF ~enabled THEN <<>>
    ELSE IF Len(data_rows) < 1 THEN <<>>
    ELSE LET cutoff_time == time - hours_back * 60
             filtered_data == HistoryLoop(data_rows, cutoff_time)
         IN  LastN(filtered_data, HistoryLimit)

----------------------------------------------------------------------------
(* Upstream answers and the refresh handler *)

\* a processed_item of fetch_market_data (lines 828-845) with the fields the
\* aggregators read; prices is <<ltp, high, low>>
FuturesQuote(prices, percentChange) ==
    [ symbol |-> <<"HDFCBANK", "28OCT25FUT">>,
      ltp |-> prices[1], high |-> prices[2], low |-> prices[3],
      weight |-> R(1), percentChange |-> percentChange,
      netChangeOpnInterest |-> 0, opnInterest |-> 0, tradeVolume |-> 0,
      pcr |-> None ]

StockQuote(prices, percentChange) ==
    [ symbol |-> <<"SBIN", "-EQ">>,
      ltp |-> prices[1], high |-> prices[2], low |-> prices[3],
      weight |-> R(1), percentChange |-> percentChange,
      netChangeOpnInterest |-> 0, opnInterest |-> 0, tradeVolume |-> 0,
      pcr |-> None ]

\* The answer of the broker to the requests of one fetch: the HTTP status
\* and, for 200, the items as lines 788-846 process them.  A request that
\* raises (no connection, timeout) ends like a status that is not 200.
Answer(data) == [status_code |-> 200, data |-> data]
Unavailable == [status_code |-> 503, data |-> <<>>]

\* fetch_market_data with a cached token: the items of a 200 answer, an empty
\* list otherwise (lines 782-857)
fetch_market_data(response) ==
    IF response.status_code = 200 THEN response.data ELSE <<>>

\* fetch_pcr_data: the mapping of a 200 answer, {} otherwise (lines 878-903)
fetch_pcr_data(response) ==
    IF response.status_code = 200 THEN response.data ELSE <<>>

\* quote lists one fetch can return
BullFutures == << FuturesQuote(<<5, 4, 1>>, R(3)) >>
BearFutures == << FuturesQuote(<<2, 4, 1>>, R(-3)) >>
QuietFutures == << FuturesQuote(<<3, 4, 1>>, R(0)) >>
\* a future that has not traded a range today: high = low
FlatFutures == << FuturesQuote(<<3, 3, 3>>, R(3)) >>
SomeStocks == << StockQuote(<<3, 4, 1>>, R(0)) >>
SomePcr == << <<"NIFTY", Frac(11, 10)>> >>

\* The answers to the five fetches of one refresh
Feed(nifty_50, bank_nifty, pcr_data, nifty_futures, bank_futures) ==
    [ nifty_50 |-> nifty_50, bank_nifty |-> bank_nifty, pcr_data |-> pcr_data,
      nifty_futures |-> nifty_futures, bank_futures |-> bank_futures ]

Feeds ==
    { Feed(Unavailable, Unavailable, Unavailable, Unavailable, Unavailable),
      Feed(Answer(SomeStocks), Answer(SomeStocks), Answer(SomePcr),
           Answer(BullFutures), Answer(BullFutures)),
      Feed(Answer(SomeStocks), Answer(SomeStocks), Answer(SomePcr),
           Answer(BearFutures), Answer(BearFutures)),
      Feed(Answer(SomeStocks), Answer(SomeStocks), Answer(SomePcr),
           Answer(QuietFutures), Answer(QuietFutures)),
      Feed(Answer(SomeStocks), Answer(SomeStocks), Answer(SomePcr),
           Answer(FlatFutures), Answer(BullFutures)),
      Feed(Unavailable, Answer(SomeStocks), Answer(SomePcr),
           Answer(FlatFutures), Answer(BullFutures)),
      Feed(Answer(SomeStocks), Unavailable, Answer(SomePcr),
           Answer(FlatFutures), Answer(FlatFutures)) }

\* the calendar day (IST) of a time
DayOf(time) == time \div 1440

\* the jwtToken of a login: one session token per day of login
JwtToken(time) == [t |-> "str", v |-> DayOf(time)]

\* authenticate keeping a token from a login that was refused
authenticate_keeps_token(cache, login_ok, time) ==
    [ok |-> login_ok, cache |-> [cache EXCEPT !.auth_token = JwtToken(time)]]


\* authenticate (lines 705-744): the token of an accepted login is cached and
\* True returned; a login the broker does not accept, or a request that
\* raises, returns False and leaves the cache as it is.
authenticate(cache, login_ok, time) ==
    IF login_ok
    THEN [ok |-> TRUE, cache |-> [cache EXCEPT !.auth_token = JwtToken(time)]]
    ELSE [ok |-> FALSE, cache |-> cache]

\* the clock at the start of a behaviour: 15:25 of day 0
StartTime == 925

\* minutes between two refreshes
RefreshMinutes == 5

\* clock advances since StartTime: days, and refresh intervals within the day
TicksTaken(time) ==
    ((time - StartTime) \div 1440) + (((time - StartTime) % 1440) \div RefreshMinutes)

\* rows added to the sheet since StartTime
NewRows(rows) ==
    Cardinality({ i \in 1..Len(rows) :
                    ~ (Len(rows[i]) > 0 /\ Cell(rows[i], 0).t = "time"
                         /\ Cell(rows[i], 0).v < StartTime) })

\* an empty list scored as the neutral 0.5
MeterOrZero_neutral(market_data) ==
    IF market_data # <<>> THEN calculate_meter_value(market_data) ELSE Frac(1, 2)

\* calculate_meter_value(...) if the list is non-empty else 0 (lines 1736-1737)
MeterOrZero(market_data) ==
    IF market_data # <<>> THEN calculate_meter_value(market_data) ELSE R(0)

\* the price-action score refresh_data hands to the store: from the futures,
\* else from the stocks when there are any (lines 1755-1764)
RefreshPriceAction(futures, stocks, index_weights) ==
    LET price_action == calculate_index_price_action(futures, index_weights)
    IN  IF price_action = None /\ stocks # <<>>
        THEN calculate_index_price_action(stocks, index_weights)
        ELSE price_action

\* the fetches of refresh_data with a failed futures fetch leaving the list
\* of the refresh before in place
Fetched_keep(cache, feed, time) ==
    [ cache EXCEPT !.nifty_50 = PyList(fetch_market_data(feed.nifty_50)),
                   !.bank_nifty = PyList(fetch_market_data(feed.bank_nifty)),
                   !.pcr_data = PyList(fetch_pcr_data(feed.pcr_data)),
                   !.nifty_futures =
                       IF feed.nifty_futures.status_code # 200
                          /\ cache.nifty_futures.t = "list"
                       THEN cache.nifty_futures
                       ELSE PyList(fetch_market_data(feed.nifty_futures)),
                   !.bank_futures =
                       IF feed.bank_futures.status_code # 200
                          /\ cache.bank_futures.t = "list"
                       THEN cache.bank_futures
                       ELSE PyList(fetch_market_data(feed.bank_futures)),
                   !.last_update = PyNum(time) ]

\* the cache after the five fetches of refresh_data (lines 1728-1733)
Fetched(cache, feed, time) ==
    [ cache EXCEPT !.nifty_50 = PyList(fetch_market_data(feed.nifty_50)),
                   !.bank_nifty = PyList(fetch_market_data(feed.bank_nifty)),
                   !.pcr_data = PyList(fetch_pcr_data(feed.pcr_data)),
                   !.nifty_futures = PyList(fetch_market_data(feed.nifty_futures)),
                   !.bank_futures = PyList(fetch_market_data(feed.bank_futures)),
                   !.last_update = PyNum(time) ]

\* the row refresh_data hands to the store once the cache is filled
RefreshRow(cache, time) ==
    LET nifty_iss == MeterOrZero(cache.nifty_futures.v)
        bank_iss == MeterOrZero(cache.bank_futures.v)
        nifty_price_action ==
            RefreshPriceAction(cache.nifty_futures.v, cache.nifty_50.v,
                               NIFTY_50_WEIGHTS)
        bank_price_action ==
            RefreshPriceAction(cache.bank_futures.v, cache.bank_nifty.v,
                               BANK_NIFTY_WEIGHTS)
    IN  append_historical_data(nifty_iss, bank_iss, nifty_price_action,
                               bank_price_action, cache, time)

\* append_historical_data writing over the last row of the sheet
Saved_overwrite(rows, row, enabled, store_ok) ==
    IF enabled /\ store_ok
    THEN [success |-> TRUE,
          rows |-> IF rows = <<>> THEN <<row>> ELSE [rows EXCEPT ![Len(rows)] = row]]
    ELSE [success |-> FALSE, rows |-> rows]

\* append_historical_data returning False for a row it has written: the
\* operation raises after the row reached the sheet
Saved_unreported(rows, row, enabled, store_ok) ==
    IF enabled
    THEN [success |-> store_ok, rows |-> Append(rows, row)]
    ELSE [success |-> FALSE, rows |-> rows]

\* What a call of append_historical_data does to the rows of the sheet and
\* what it returns (lines 127-200): False and no row when the store is not
\* configured or one of its operations raises, else the row and True.
Saved(rows, row, enabled, store_ok) ==
    IF enabled /\ store_ok
    THEN [success |-> TRUE, rows |-> Append(rows, row)]
    ELSE [success |-> FALSE, rows |-> rows]

\* GET /api/refresh-data.  login_ok: the broker accepts the login; feed: its
\* answers to the fetches, one of feeds; store_ok: the operations on the
\* sheet succeed.
\* No login is made with a cached token and no store operation without a
\* store.  args keeps the answers the handler was given and its local
\* success.
Refresh(feeds) ==
    /\ pc = "serve"
    /\ NewRows(sheet) < MaxRows
    /\ \E login_ok \in IF cached_data.auth_token.t = "NoneType" THEN BOOLEAN ELSE {TRUE},
          feed \in feeds,
          store_ok \in IF GOOGLE_SHEETS_ENABLED THEN BOOLEAN ELSE {FALSE} :
          \E login \in { IF cached_data.auth_token.t = "NoneType"
                         THEN authenticate(cached_data, login_ok, now)
                         ELSE [ok |-> TRUE, cache |-> cached_data] } :
              IF ~login.ok
              THEN /\ ret' = [ code |-> 500, status |-> "error",
                                message |-> "Authentication failed" ]
                   /\ cached_data' = login.cache
                   /\ sheet' = sheet
                   /\ args' = <<>>
              ELSE \E cache \in { Fetched(login.cache, feed, now) } :
                   \E saved \in { Saved(sheet, RefreshRow(cache, now),
                                        GOOGLE_SHEETS_ENABLED, store_ok) } :
                       /\ cached_data' = cache
                       /\ sheet' = saved.rows
                       /\ args' = [responses |-> feed, success |-> saved.success]
                       /\ ret' = [ code |-> 200, status |-> "success",
                                    data_counts |->
                                      [ nifty_50 |-> Len(cache.nifty_50.v),
                                        bank_nifty |-> Len(cache.bank_nifty.v),
                                        pcr_data |-> Len(cache.pcr_data.v),
                                        nifty_futures |-> Len(cache.nifty_futures.v),
                                        bank_futures |-> Len(cache.bank_futures.v) ] ]
    /\ fn' = "refresh_data"
    /\ UNCHANGED <<pc, now, GOOGLE_SHEETS_ENABLED>>

\* the answers the server specification draws from: the failed fetches, the
\* flat futures and the bearish futures; the feeds whose futures are all
\* bullish or all quiet are left to the specifications without a store
ServerFeeds ==
    { feed \in Feeds :
        \/ feed.nifty_futures.status_code # 200
        \/ feed.nifty_futures.data \notin {BullFutures, QuietFutures} }

\* a refresh of the server with the history store
RefreshData == Refresh(ServerFeeds)

\* the clock reaches the time of the next refresh
Tick ==
    /\ pc = "serve"
    /\ TicksTaken(now) < MaxTicks
    /\ now' = now + RefreshMinutes
    /\ UNCHANGED <<fn, args, ret, pc, sheet, cached_data, GOOGLE_SHEETS_ENABLED>>

----------------------------------------------------------------------------
(* Read endpoints *)

\* generate_simple_signal (lines 2235-2248) for a momentum that is a number
generate_simple_signal(value, momentum) ==
    IF RLe(Frac(65, 100), value)
    THEN IF RLt(Frac(5, 100), momentum)
         THEN [action |-> "STRONG_BUY", confidence |-> "High"]
         ELSE [action |-> "BUY", confidence |-> "Medium"]
    ELSE IF RLe(value, Frac(35, 100))
    THEN IF RLt(momentum, Frac(-5, 100))
         THEN [action |-> "STRONG_SELL", confidence |-> "High"]
         ELSE [action |-> "SELL", confidence |-> "Medium"]
    ELSE [action |-> "NEUTRAL", confidence |-> "Low"]

\* the zone of get_simple_interpretation (lines 2250-2286)
get_simple_interpretation(value, momentum) ==
    IF RLt(Frac(75, 100), value) THEN [zone |-> "Strong Bull"]
    ELSE IF RLe(Frac(65, 100), value) THEN [zone |-> "Bullish"]
    ELSE IF RLe(Frac(35, 100), value) THEN [zone |-> "Neutral"]
    ELSE IF RLe(Frac(25, 100), value) THEN [zone |-> "Bearish"]
    ELSE [zone |-> "Strong Bear"]

\* None in (nifty_iss, bank_iss, nifty_price_action, bank_price_action)
PointIncomplete(point) ==
    point.nifty_price_action = None \/ point.bank_price_action = None

\* (oi + pa) / 2
SimpleComposite(oi, pa) == RDiv(RAdd(oi, pa), R(2))

\* the time of day the chart loop reads from point['timestamp'], None when
\* the text has neither format (lines 2168-2184)
ChartMinute(ts) ==
    IF ts.t = "clock" THEN <<ts.v>>
    ELSE IF ts.t = "time" THEN <<MinuteOfDay(ts.v)>>
    ELSE None

\* market_open <= dt_time <= market_close, 09:15 to 15:30
InMarketHours(minute) == 555 <= minute /\ minute <= 930

RECURSIVE ChartLoop(_, _, _)
ChartLoop(points, i, chart_data) ==
    IF i > Len(points) THEN chart_data
    ELSE LET point == points[i]
             minute == ChartMinute(point.timestamp)
         IN  ChartLoop(points, i + 1,
                 IF PointIncomplete(point) THEN chart_data
                 ELSE IF minute = None THEN chart_data
                 ELSE IF ~InMarketHours(minute[1]) THEN chart_data
                 ELSE Append(chart_data,
                    [ time_full |-> point.time_full,
                      nifty_composite |->
                          PyRound(SimpleComposite(point.nifty_iss,
                                                  point.nifty_price_action), 10000),
                      bank_composite |->
                          PyRound(SimpleComposite(point.bank_iss,
                                                  point.bank_price_action), 10000) ]))

\* one index of the success response (lines 2204-2212)
CompositeState(composite, momentum, oi, pa) ==
    [ current_value |-> PyRound(composite, 10000),
      momentum |-> PyRound(momentum, 10000),
      signal |-> generate_simple_signal(composite, momentum),
      interpretation |-> get_simple_interpretation(composite, momentum),
      adaptive_weight |-> Frac(1, 2),
      raw_oi |-> PyRound(oi, 10000),
      raw_pa |-> PyRound(pa, 10000) ]

\* The response of GET /api/composite-meter to the points read from the
\* store.  The momenta stay None without a complete previous point, and then
\* generate_simple_signal (None > 0.05) or round(None, 4) raises TypeError,
\* which the handler answers with 500 (lines 2228-2233).
get_composite_meter(historical_data) ==
    IF Len(historical_data) < 1
    THEN [ code |-> 400, status |-> "error",
           message |-> "No historical data available for composite meter calculation" ]
    ELSE LET latest == historical_data[Len(historical_data)]
         IN  IF PointIncomplete(latest)
             THEN [ code |-> 400, status |-> "error",
                    message |-> "Missing required data for composite meter calculation" ]
             ELSE IF ~ (Len(historical_data) > 1
                          /\ ~PointIncomplete(historical_data[Len(historical_data) - 1]))
             THEN [ code |-> 500, status |-> "error",
                    message |-> "Error calculating composite meter" ]
             ELSE LET prev == historical_data[Len(historical_data) - 1]
                      nifty_composite ==
                          SimpleComposite(latest.nifty_iss, latest.nifty_price_action)
                      bank_composite ==
                          SimpleComposite(latest.bank_iss, latest.bank_price_action)
                      prev_nifty == SimpleComposite(prev.nifty_iss, prev.nifty_price_action)
                      prev_bank == SimpleComposite(prev.bank_iss, prev.bank_price_action)
                      nifty_momentum == RSub(nifty_composite, prev_nifty)
                      bank_momentum == RSub(bank_composite, prev_bank)
                      chart_data == ChartLoop(LastN(historical_data, 24), 1, <<>>)
                  IN  [ code |-> 200, status |-> "success",
                        nifty |-> CompositeState(nifty_composite, nifty_momentum,
                                     latest.nifty_iss, latest.nifty_price_action),
                        bank_nifty |-> CompositeState(bank_composite, bank_momentum,
                                     latest.bank_iss, latest.bank_price_action),
                        chart_data |-> chart_data,
                        data_points |-> Len(chart_data),
                        last_update |-> latest.time_full ]

\* len([s for s in data if s.get('symbol', '').upper() in index_weights])
StocksAnalyzed(data, index_weights) ==
    Cardinality({ i \in 1..Len(data) :
                    LET upper == [k \in 1..Len(data[i].symbol) |-> Upper(data[i].symbol[k])]
                    IN  Len(upper) = 1 /\ upper[1] \in DOMAIN index_weights })

\* The response of GET /api/price-action (lines 1897-1969)
get_price_action(cache, time) ==
    LET nifty_futures_data == CachedList(cache, "nifty_futures")
        bank_futures_data == CachedList(cache, "bank_futures")
        nifty_price_score ==
            calculate_index_price_action(nifty_futures_data, NIFTY_50_WEIGHTS)
        bank_price_score ==
            calculate_index_price_action(bank_futures_data, BANK_NIFTY_WEIGHTS)
    IN  IF nifty_price_score = None \/ bank_price_score = None
        THEN [ code |-> 400, status |-> "error",
               message |-> "Unable to calculate price action - insufficient valid data",
               nifty_calculated |-> nifty_price_score # None,
               bank_calculated |-> bank_price_score # None ]
        ELSE [ code |-> 200, status |-> "success",
               timestamp |-> ClockCell(MinuteOfDay(time)),
               nifty_50 |->
                 [ price_score |-> nifty_price_score,
                   zone |-> get_price_action_zone(nifty_price_score),
                   stocks_analyzed |->
                       StocksAnalyzed(nifty_futures_data, NIFTY_50_WEIGHTS) ],
               bank_nifty |->
                 [ price_score |-> bank_price_score,
                   zone |-> get_price_action_zone(bank_price_score),
                   stocks_analyzed |->
                       StocksAnalyzed(bank_futures_data, BANK_NIFTY_WEIGHTS) ],
               last_update |-> cache.last_update ]

\* the loop over historical_data of lines 1984-2009
RECURSIVE PriceHistoryLoop(_, _, _)
PriceHistoryLoop(historical_data, i, price_history) ==
    IF i > Len(historical_data) THEN price_history
    ELSE LET point == historical_data[i]
         IN  PriceHistoryLoop(historical_data, i + 1,
                 IF point.nifty_price_action = None /\ point.bank_price_action = None
                 THEN price_history
                 ELSE Append(price_history,
                          [ timestamp |-> point.timestamp,
                            time_full |-> point.time_full,
                            nifty_price_action |-> point.nifty_price_action,
                            bank_price_action |-> point.bank_price_action,
                            nifty_pa_zone |-> point.nifty_pa_zone,
                            bank_pa_zone |-> point.bank_pa_zone ]))

\* The response of GET /api/price-action-history (lines 1971-2067) to the
\* points read from the store.  In the current-only fallback
\* get_price_action_zone is called on the scores as they are: on None its
\* first comparison (score <= 0.2) raises TypeError, which the handler
\* answers with 500 (lines 2063-2067).
get_price_action_history(historical_data, cache, time) ==
    IF historical_data # <<>>
    THEN LET price_history == PriceHistoryLoop(historical_data, 1, <<>>)
         IN  [ code |-> 200, status |-> "success",
               price_action_history |-> price_history,
               data_source |-> "google_sheets",
               data_points |-> Len(price_history),
               skipped_points |-> Len(historical_data) - Len(price_history),
               last_update |-> cache.last_update ]
    ELSE LET current_nifty_pa ==
                 calculate_index_price_action(CachedList(cache, "nifty_futures"),
                                              NIFTY_50_WEIGHTS)
             current_bank_pa ==
                 calculate_index_price_action(CachedList(cache, "bank_futures"),
                                              BANK_NIFTY_WEIGHTS)
         IN  IF current_nifty_pa = None \/ current_bank_pa = None
             THEN [ code |-> 500, status |-> "error",
                    message |-> "Error getting price action history" ]
             ELSE [ code |-> 200, status |-> "success",
                    price_action_history |->
                      << [ timestamp |-> ClockCell(MinuteOfDay(time)),
                           time_full |-> time,
                           nifty_price_action |-> current_nifty_pa,
                           bank_price_action |-> current_bank_pa,
                           nifty_pa_zone |->
                               TextCell(get_price_action_zone(current_nifty_pa).zone),
                           bank_pa_zone |->
                               TextCell(get_price_action_zone(current_bank_pa).zone) ] >>,
                    data_source |-> "current_only",
                    data_points |-> 1,
                    skipped_points |-> 0,
                    last_update |-> cache.last_update ]

----------------------------------------------------------------------------
(* The server: refreshes, clock and read endpoints, one request at a time *)

ServerInit ==
    /\ pc = "serve"
    /\ fn = "start"
    /\ args = <<>>
    /\ ret = None
    /\ sheet = <<>>
    /\ now = StartTime
    /\ cached_data = InitialCache
    /\ GOOGLE_SHEETS_ENABLED \in BOOLEAN

\* GET /api/composite-meter: the last 6 hours of the store
GetCompositeMeter ==
    /\ pc = "serve"
    /\ ret' = get_composite_meter(
                  get_historical_data(6, sheet, now, GOOGLE_SHEETS_ENABLED))
    /\ fn' = "get_composite_meter"
    /\ args' = <<>>
    /\ UNCHANGED <<pc, server>>

\* GET /api/price-action
GetPriceAction ==
    /\ pc = "serve"
    /\ ret' = get_price_action(cached_data, now)
    /\ fn' = "get_price_action"
    /\ args' = <<>>
    /\ UNCHANGED <<pc, server>>

\* GET /api/price-action-history: the last 48 hours of the store
GetPriceActionHistory ==
    /\ pc = "serve"
    /\ ret' = get_price_action_history(
                  get_historical_data(48, sheet, now, GOOGLE_SHEETS_ENABLED),
                  cached_data, now)
    /\ fn' = "get_price_action_history"
    /\ args' = <<>>
    /\ UNCHANGED <<pc, server>>

ServerNext ==
    \/ RefreshData
    \/ Tick
    \/ GetCompositeMeter
    \/ GetPriceAction
    \/ GetPriceActionHistory

ServerSpec == ServerInit /\ [][ServerNext]_vars

----------------------------------------------------------------------------
(* Claims about the endpoints *)

Served(f) == pc = "serve" /\ fn = f

\* the points the composite-meter endpoint reads in the current state
MeterPoints == get_historical_data(6, sheet, now, GOOGLE_SHEETS_ENABLED)

\* the composite value of the k-th point from the end
CompositeAt(points, k, index) ==
    LET point == points[Len(points) - k]
    IN  IF index = "nifty"
        THEN SimpleComposite(point.nifty_iss, point.nifty_price_action)
        ELSE SimpleComposite(point.bank_iss, point.bank_price_action)

\* the signal is one the value's move from the previous point allows
GatedByCrossing(signal, current_value, prev_value) ==
    /\ signal.action \in BuyActions =>
          RLt(prev_value, buy_threshold) /\ RLe(buy_threshold, current_value)
    /\ signal.action \in SellActions =>
          RLt(sell_threshold, prev_value) /\ RLe(current_value, sell_threshold)

\* C12: the signal served by /api/composite-meter is hysteresis-gated: a
\* response carries BUY or STRONG_BUY only when the composite value of the
\* latest point is >= 0.65 and that of the point before it was below 0.65
\* (SELL or STRONG_SELL only on a move to <= 0.35 from above), so it is not
\* repeated while the value stays beyond the threshold.
C12_EndpointSignalOnlyOnCrossing ==
    (Served("get_composite_meter") /\ ret.code = 200) =>
        /\ GatedByCrossing(ret.nifty.signal, CompositeAt(MeterPoints, 0, "nifty"),
                           CompositeAt(MeterPoints, 1, "nifty"))
        /\ GatedByCrossing(ret.bank_nifty.signal, CompositeAt(MeterPoints, 0, "bank"),
                           CompositeAt(MeterPoints, 1, "bank"))

----------------------------------------------------------------------------
(* 4.5 Composite Engine *)

\* min(a, b) of two lengths
Smaller(a, b) == IF a < b THEN a ELSE b

\* The value of the rest of a function body after the statement
\* name = value: value is computed once, before the rest, as the
\* interpreter does.
Assign(value, Rest(_)) == CHOOSE result \in {Rest(name) : name \in {value}} : TRUE

\* sum of a non-empty sequence: neighbours are added pair by pair until one
\* value is left
RECURSIVE Total(_)
Total(seq) ==
    IF Len(seq) = 1 THEN seq[1]
    ELSE Assign(Series([k \in 1..((Len(seq) + 1) \div 2) |->
                          IF 2 * k > Len(seq) THEN seq[2 * k - 1]
                          ELSE RAdd(seq[2 * k - 1], seq[2 * k])]),
                LAMBDA pairs : Total(pairs))

RMean(seq) == RDiv(Total(seq), R(Len(seq)))

\* min and max of a non-empty sequence
RMinOf(seq) ==
    LET values == {seq[k] : k \in DOMAIN seq}
    IN  CHOOSE x \in values : \A y \in values : RLe(x, y)

RMaxOf(seq) ==
    LET values == {seq[k] : k \in DOMAIN seq}
    IN  CHOOSE x \in values : \A y \in values : RLe(y, x)

\* np.clip(x, lo, hi) and max(lo, min(hi, x))
Clip(x, lo, hi) == RMax(lo, RMin(hi, x))

\* the adaptive weight of lines 1182 and 1236
AdaptiveWeight(oi) == Clip(RMul(RSub(oi, Frac(1, 2)), R(2)), Frac(2, 10), Frac(8, 10))

\* weight * oi_centered + (1 - weight) * pa_centered of lines 1183 and 1241
Blend(weight, oi_centered, pa_centered) ==
    RAdd(RMul(weight, oi_centered), RMul(RSub(R(1), weight), pa_centered))

\* the normalisation with a flat window put at the middle of the scale
Normalized_midpoint(x, lo, hi) ==
    IF hi = lo THEN Frac(1, 2) ELSE Clamp01(RDiv(RSub(x, lo), RSub(hi, lo)))

\* (x - lo) / (hi - lo + 1e-8) of lines 1194-1195 and 1256-1258.  The 1e-8
\* only keeps a flat window from dividing by zero: a flat window yields 0,
\* and for the ranges of the series below (hundredths and more) the term
\* moves the quotient by less than 0.000001; it is left out of the quotient.
Normalized(x, lo, hi) ==
    IF hi = lo THEN R(0) ELSE Clamp01(RDiv(RSub(x, lo), RSub(hi, lo)))

\* the window series.rolling(window, min_periods=1) sees at position i
RollingWindow(series, window, i) ==
    SubSeq(series, IF i > window THEN i - window + 1 ELSE 1, i)

\* series.rolling(window, min_periods=1).mean()
RollingMean(series, window) ==
    Series([i \in DOMAIN series |->
              Assign(RollingWindow(series, window, i), LAMBDA seen : RMean(seen))])

\* the series normalized over its rolling minimum and maximum
RollingNormalized(series, window) ==
    Series([i \in DOMAIN series |->
              Assign(RollingWindow(series, window, i),
                     LAMBDA seen : Normalized(series[i], RMinOf(seen), RMaxOf(seen)))])

\* the smoothing factor of ewm(span=3): alpha = 2 / (span + 1)
span == 3
alpha == Frac(2, span + 1)

\* series.ewm(span=3, adjust=False).mean(): mean[1] = series[1] and
\* mean[i] = (1 - alpha) * mean[i-1] + alpha * series[i], that is the sum over
\* j <= i of (1 - alpha)^(i-j) * term[j], with term[1] = series[1] and
\* term[j] = alpha * series[j]. partial[i] holds that sum over the last
\* stride terms up to i, decay is (1 - alpha)^stride; the stride doubles
\* until it covers the series.
RECURSIVE EwmLoop(_, _, _)
EwmLoop(partial, stride, decay) ==
    IF stride >= Len(partial) THEN partial
    ELSE Assign(Series([i \in DOMAIN partial |->
                          IF i > stride
                          THEN RAdd(partial[i], RMul(decay, partial[i - stride]))
                          ELSE partial[i]]),
                LAMBDA longer : EwmLoop(longer, 2 * stride, RMul(decay, decay)))

Ewm(series) ==
    Assign(Series([i \in DOMAIN series |->
                     IF i = 1 THEN series[1] ELSE RMul(alpha, series[i])]),
           LAMBDA term : EwmLoop(term, 1, RSub(R(1), alpha)))

\* the zone of get_composite_interpretation; the three texts that come with
\* a zone are fixed by it
get_composite_interpretation(value, momentum) ==
    IF RLt(Frac(75, 100), value)
    THEN IF RLt(Frac(5, 100), momentum) THEN [zone |-> "Strong Bull (Rising)"]
         ELSE [zone |-> "Strong Bull (Flat)"]
    ELSE IF RLe(Frac(65, 100), value) /\ RLe(value, Frac(75, 100))
    THEN IF RLt(R(0), momentum) THEN [zone |-> "Bullish"]
         ELSE [zone |-> "Bullish (Weakening)"]
    ELSE IF RLe(Frac(35, 100), value) /\ RLt(value, Frac(65, 100))
    THEN [zone |-> "Neutral/Choppy"]
    ELSE IF RLe(Frac(25, 100), value) /\ RLt(value, Frac(35, 100))
    THEN IF RLt(momentum, R(0)) THEN [zone |-> "Bearish"]
         ELSE [zone |-> "Bearish (Stabilizing)"]
    ELSE IF RLt(momentum, Frac(-5, 100)) THEN [zone |-> "Strong Bear (Falling)"]
         ELSE [zone |-> "Strong Bear (Flat)"]

\* the dictionary calculate_advanced_composite and
\* calculate_simple_composite return (lines 1204-1216 and 1266-1278)
CompositeReturn(current_value, prev_value, momentum, adaptive_weight, raw_oi, raw_pa) ==
    [ current_value |-> PyRound(current_value, 10000),
      momentum |-> PyRound(momentum, 10000),
      signal |-> generate_composite_signal(current_value, prev_value, momentum),
      interpretation |-> get_composite_interpretation(current_value, momentum),
      adaptive_weight |-> PyRound(adaptive_weight, 1000),
      raw_oi |-> PyRound(raw_oi, 10000),
      raw_pa |-> PyRound(raw_pa, 10000) ]

\* the statistical variant over the frame df, a sequence of records
calculate_advanced_composite(df, iss_col, pa_col) ==
    LET n == Len(df)
        window_size == Smaller(12, n)
        rolling_window == Smaller(24, n)
    IN
    Assign(Series([i \in DOMAIN df |-> df[i][iss_col]]), LAMBDA normalized_oi :
    Assign(Series([i \in DOMAIN df |-> df[i][pa_col]]), LAMBDA normalized_pa :
    Assign(RollingMean(normalized_oi, window_size), LAMBDA oi_mean :
    Assign(Series([i \in DOMAIN oi_mean |-> RSub(normalized_oi[i], oi_mean[i])]),
           LAMBDA oi_centered :
    Assign(RollingMean(normalized_pa, window_size), LAMBDA pa_mean :
    Assign(Series([i \in DOMAIN pa_mean |-> RSub(normalized_pa[i], pa_mean[i])]),
           LAMBDA pa_centered :
    Assign(Series([i \in DOMAIN normalized_oi |-> AdaptiveWeight(normalized_oi[i])]),
           LAMBDA adaptive_weight :
    Assign(Series([i \in DOMAIN oi_centered |->
                     Blend(adaptive_weight[i], oi_centered[i], pa_centered[i])]),
           LAMBDA composite :
    Assign(Ewm(composite), LAMBDA ema1 :
    Assign(Ewm(ema1), LAMBDA ema2 :
    Assign(Series([i \in DOMAIN ema2 |-> RSub(RMul(R(2), ema1[i]), ema2[i])]),
           LAMBDA smoothed_signal :
    Assign(RollingNormalized(smoothed_signal, rolling_window),
           LAMBDA normalized_final :
    Assign(Series([i \in DOMAIN normalized_final |->
                     IF i > 3 THEN RSub(normalized_final[i], normalized_final[i - 3])
                     ELSE R(0)]),
           LAMBDA momentum :
        CompositeReturn(normalized_final[n],
                        IF Len(normalized_final) > 1 THEN normalized_final[n - 1]
                        ELSE normalized_final[n],
                        momentum[n], adaptive_weight[n], normalized_oi[n],
                        normalized_pa[n]))))))))))))))

\* the simplified variant over the list data
calculate_simple_composite(data, iss_key, pa_key) ==
    Assign(LastN(data, 12), LAMBDA recent_data :
    Assign(Series([i \in DOMAIN recent_data |-> recent_data[i][iss_key]]),
           LAMBDA oi_values :
    Assign(Series([i \in DOMAIN recent_data |-> recent_data[i][pa_key]]),
           LAMBDA pa_values :
    Assign(RMean(oi_values), LAMBDA oi_mean :
    Assign(RMean(pa_values), LAMBDA pa_mean :
    Assign(Series([i \in DOMAIN oi_values |-> RSub(oi_values[i], oi_mean)]),
           LAMBDA oi_centered :
    Assign(Series([i \in DOMAIN pa_values |-> RSub(pa_values[i], pa_mean)]),
           LAMBDA pa_centered :
    Assign(oi_values[Len(oi_values)], LAMBDA last_oi :
    Assign(AdaptiveWeight(last_oi), LAMBDA adaptive_weight :
    Assign(Series([i \in DOMAIN oi_centered |->
                     Blend(adaptive_weight, oi_centered[i], pa_centered[i])]),
           LAMBDA composite_values :
    Assign(Series([i \in DOMAIN composite_values |->
                     IF i < 3 THEN composite_values[i]
                     ELSE RDiv(Total(SubSeq(composite_values, i - 2, i)), R(3))]),
           LAMBDA smoothed :
    Assign(RMinOf(smoothed), LAMBDA min_val :
    Assign(RMaxOf(smoothed), LAMBDA max_val :
    Assign(Series([i \in DOMAIN smoothed |->
                     Normalized(smoothed[i], min_val, max_val)]),
           LAMBDA normalized :
        LET n == Len(normalized)
            current_value == normalized[n]
            prev_value == IF n > 1 THEN normalized[n - 1] ELSE current_value
            momentum_prev == IF n > 3 THEN normalized[n - 3] ELSE normalized[1]
        IN  CompositeReturn(current_value, prev_value,
                            RSub(current_value, momentum_prev), adaptive_weight,
                            last_oi, pa_values[n])))))))))))))))

\* the test of lines 1074-1075
HasPriceAction(point) ==
    point.nifty_price_action # None /\ point.bank_price_action # None

\* the dictionary of lines 1076-1082
ProcessedPoint(point) ==
    [ timestamp |-> point.time_full,
      nifty_iss |-> point.nifty_iss, bank_iss |-> point.bank_iss,
      nifty_pa |-> point.nifty_price_action, bank_pa |-> point.bank_price_action ]

\* the place of data[i] once data is sorted by timestamp, points of one
\* timestamp keeping their order
SortedPlace(data, i) ==
    Cardinality({j \in DOMAIN data :
                    \/ data[j].timestamp < data[i].timestamp
                    \/ data[j].timestamp = data[i].timestamp /\ j < i}) + 1

SortByTimestamp(data) ==
    Assign(Series([i \in DOMAIN data |-> SortedPlace(data, i)]), LAMBDA place :
        Series([k \in DOMAIN place |-> data[CHOOSE i \in DOMAIN place : place[i] = k]]))

\* an entry of chart_data (lines 1134-1146)
ChartPoint(row) ==
    [ timestamp |-> ClockCell(MinuteOfDay(row.timestamp)),
      time_full |-> row.timestamp,
      nifty_composite |-> PyRound(RDiv(RAdd(row.nifty_iss, row.nifty_pa), R(2)), 10000),
      bank_composite |-> PyRound(RDiv(RAdd(row.bank_iss, row.bank_pa), R(2)), 10000),
      nifty_oi |-> PyRound(row.nifty_iss, 10000),
      nifty_pa |-> PyRound(row.nifty_pa, 10000),
      bank_oi |-> PyRound(row.bank_iss, 10000),
      bank_pa |-> PyRound(row.bank_pa, 10000) ]

\* the points kept by the loop of lines 1072-1082
ProcessedData(historical_data) ==
    Assign(SelectSeq(historical_data, HasPriceAction), LAMBDA complete :
        Series([i \in DOMAIN complete |-> ProcessedPoint(complete[i])]))

\* the rest of calculate_composite_meter once enough points are kept
\* (lines 1087-1160)
CompositeResult(processed_data, use_advanced) ==
    Assign(SortByTimestamp(processed_data), LAMBDA df :
    Assign(IF use_advanced
           THEN [ nifty |-> calculate_advanced_composite(df, "nifty_iss", "nifty_pa"),
                  bank_nifty |->
                      calculate_advanced_composite(df, "bank_iss", "bank_pa") ]
           ELSE [ nifty |-> calculate_simple_composite(df, "nifty_iss", "nifty_pa"),
                  bank_nifty |->
                      calculate_simple_composite(df, "bank_iss", "bank_pa") ],
           LAMBDA results :
    Assign(Series([i \in DOMAIN df |-> ChartPoint(df[i])]), LAMBDA chart_data :
        [ status |-> "success",
          nifty |-> results.nifty,
          bank_nifty |-> results.bank_nifty,
          chart_data |-> chart_data,
          data_points |-> Len(chart_data),
          last_update |-> df[Len(df)].timestamp ])))

\* calculate_composite_meter without the second count of lines 1084-1085
calculate_composite_meter_one_count(historical_data, use_advanced) ==
    IF Len(historical_data) < 12 THEN PyNone
    ELSE Assign(ProcessedData(historical_data),
                LAMBDA processed_data : CompositeResult(processed_data, use_advanced))

\* calculate_composite_meter; use_advanced is whether pandas and numpy
\* import (lines 1063-1069); PyNone is the None it returns
calculate_composite_meter(historical_data, use_advanced) ==
    IF Len(historical_data) < 12 THEN PyNone
    ELSE Assign(ProcessedData(historical_data),
                LAMBDA processed_data :
                    IF Len(processed_data) < 12 THEN PyNone
                    ELSE CompositeResult(processed_data, use_advanced))

----------------------------------------------------------------------------
(* Specification of the engine fed point by point: the history grows by   *)
(* one point of a series at a time and calculate_composite_meter is       *)
(* called on it, with or without pandas.                                  *)

\* the history point read back from a stored row with these scores, taken
\* RefreshMinutes apart from StartTime on
SeriesPoint(k, scores) ==
    LET time == StartTime + RefreshMinutes * k
        cell(x) == IF x = None THEN EmptyCell ELSE NumCell(x)
    IN  HistoryPoint(<< TimeCell(time), ClockCell(MinuteOfDay(time)),
                        NumCell(scores[1]), NumCell(scores[3]),
                        TextCell(get_meter_status(scores[1]).status),
                        TextCell(get_meter_status(scores[3]).status),
                        TextCell(SessionOf(HourOf(time))),
                        cell(scores[2]), cell(scores[4]),
                        TextCell("Neutral"), TextCell("Neutral") >>)

\* Series of <<nifty_iss, nifty_pa, bank_iss, bank_pa>>.
\* RampSeries: 12 points, ISS from 0.3 to 0.8 in equal steps, PA flat at 0.5
\* (the bank index has the two exchanged).
RampSeries ==
    [k \in 1..12 |->
        <<Frac(33 + 5 * (k - 1), 110), Frac(1, 2), Frac(1, 2), Frac(33 + 5 * (k - 1), 110)>>]

\* LinearSeries: 16 points, both scores of the nifty rising by 0.05 a point,
\* both scores of the bank index falling by 0.05
LinearSeries ==
    [k \in 1..16 |-> <<Frac(k, 20), Frac(k, 20), Frac(20 - k, 20), Frac(20 - k, 20)>>]

\* SpikeSeries: 24 points at 0.5 but for one ISS of 0.75 at the 23rd; the
\* PA of the bank index follows its ISS
SpikeSeries ==
    [k \in 1..24 |->
        LET iss == IF k = 23 THEN Frac(3, 4) ELSE Frac(1, 2)
        IN  <<iss, Frac(1, 2), iss, iss>>]

\* StepSeries: 24 points, the ISS at 0.25 up to the 18th point and at 0.75
\* from the 19th on, the PA flat at 0.5 (the bank index steps at the 21st
\* point in both scores)
StepSeries ==
    [k \in 1..24 |->
        LET nifty == IF k <= 18 THEN Frac(1, 4) ELSE Frac(3, 4)
            bank == IF k <= 20 THEN Frac(1, 4) ELSE Frac(3, 4)
        IN  <<nifty, Frac(1, 2), bank, bank>>]

\* GapSeries: the first 13 points of LinearSeries, the 2nd without a nifty PA
GapSeries ==
    [k \in 1..13 |->
        IF k = 2 THEN <<Frac(k, 20), None, Frac(20 - k, 20), Frac(20 - k, 20)>>
        ELSE LinearSeries[k]]

\* LateGapSeries: the first 14 points of LinearSeries, the 1st without a bank
\* PA and the 13th without either
LateGapSeries ==
    [k \in 1..14 |->
        IF k = 1 THEN <<Frac(k, 20), Frac(k, 20), Frac(20 - k, 20), None>>
        ELSE IF k = 13 THEN <<Frac(k, 20), None, Frac(20 - k, 20), None>>
        ELSE LinearSeries[k]]

\* FlatSeries: 14 points, the nifty at ISS 0.8 and PA 0.2 throughout, the
\* bank index at ISS 0.1 with a PA rising by 0.05 a point
FlatSeries ==
    [k \in 1..14 |-> <<Frac(4, 5), Frac(1, 5), Frac(1, 10), Frac(k, 20)>>]

PointsOf(series) == [k \in 1..Len(series) |-> SeriesPoint(k, series[k])]

EngineSeries ==
    { PointsOf(RampSeries), PointsOf(LinearSeries), PointsOf(SpikeSeries),
      PointsOf(StepSeries), PointsOf(GapSeries), PointsOf(LateGapSeries),
      PointsOf(FlatSeries) }

Fed == args[1]
use_advanced_calculations == args[2]

EngineInit ==
    /\ pc = "engine"
    /\ fn = "calculate_composite_meter"
    /\ \E pandas \in BOOLEAN : args = <<<<>>, pandas>>
    /\ ret = PyNone
    /\ sheet = <<>>
    /\ now = StartTime
    /\ cached_data = InitialCache
    /\ GOOGLE_SHEETS_ENABLED = TRUE

\* the next point of a series arrives and the engine is called on the
\* history so far
FeedPoint ==
    /\ pc = "engine"
    /\ \E series \in EngineSeries :
          /\ Len(Fed) < Len(series)
          /\ SubSeq(series, 1, Len(Fed)) = Fed
          /\ LET historical_data == Append(Fed, series[Len(Fed) + 1])
             IN  /\ args' = <<historical_data, use_advanced_calculations>>
                 /\ ret' = calculate_composite_meter(historical_data,
                                                     use_advanced_calculations)
    /\ UNCHANGED <<fn, pc, server>>

EngineNext == FeedPoint

EngineSpec == EngineInit /\ [][EngineNext]_vars

Fired == pc = "engine" /\ Len(Fed) > 0

\* the number of points fed that have both price-action scores
RECURSIVE Complete(_, _)
Complete(points, i) ==
    IF i = 0 THEN 0
    ELSE Complete(points, i - 1)
         + (IF /\ points[i].nifty_price_action # None
               /\ points[i].bank_price_action # None
            THEN 1 ELSE 0)

C13_WitnessNone ==
    /\ Fired
    /\ Len(Fed) >= 12
    /\ Complete(Fed, Len(Fed)) = 11
    /\ ret = PyNone

\* what calculate_composite_meter returns on the same history when pandas
\* is there and the call ran without it, or the reverse
OtherVariant == calculate_composite_meter(Fed, ~use_advanced_calculations)

Within(a, b, tolerance) ==
    RLe(RSub(a, b), tolerance) /\ RLe(RSub(b, a), tolerance)

\* 24 points are fed and none of them lacks a score
FullSeries == Fired /\ Len(Fed) = 24 /\ Complete(Fed, Len(Fed)) = 24

\* C14: on every 24-point series of scores with no missing value, the
\* current_value of the statistical variant and the current_value of the
\* simplified variant are within 0.02 of each other.
C14_VariantsAgree ==
    FullSeries =>
        /\ Within(ret.nifty.current_value, OtherVariant.nifty.current_value,
                  Frac(2, 100))
        /\ Within(ret.bank_nifty.current_value,
                  OtherVariant.bank_nifty.current_value, Frac(2, 100))

\* the scores of column col over the points the engine keeps rise strictly
Rising(col) ==
    LET df == SortByTimestamp(ProcessedData(Fed))
    IN  \A i \in 1..(Len(df) - 1) : RLt(df[i][col], df[i + 1][col])

\* C15: on a history of at least 12 points whose ISS series and PA series
\* both rise strictly, the momentum the engine reports at the last point
\* is not negative, in either variant.
C15_RisingSeriesMomentum ==
    (Fired /\ ret # PyNone) =>
        /\ (Rising("nifty_iss") /\ Rising("nifty_pa"))
               => RLe(R(0), ret.nifty.momentum)
        /\ (Rising("bank_iss") /\ Rising("bank_pa"))
               => RLe(R(0), ret.bank_nifty.momentum)

\* the points fed so far are the first points of the ramp
OnRamp ==
    /\ Fired
    /\ Len(Fed) <= Len(RampSeries)
    /\ Fed = SubSeq(PointsOf(RampSeries), 1, Len(Fed))

\* the point of the ramp at which the ISS crosses 0.65
CrossingPoint ==
    CHOOSE k \in 2..Len(RampSeries) :
        /\ RLt(RampSeries[k - 1][1], Frac(65, 100))
        /\ RLe(Frac(65, 100), RampSeries[k][1])

----------------------------------------------------------------------------
(* Claims about absent price-action scores *)

\* the aggregator has no result for one of the indices on the cached futures
NoPriceAction ==
    \/ calculate_index_price_action(CachedList(cached_data, "nifty_futures"),
                                    NIFTY_50_WEIGHTS) = None
    \/ calculate_index_price_action(CachedList(cached_data, "bank_futures"),
                                    BANK_NIFTY_WEIGHTS) = None

\* /api/price-action-history has no stored point to serve and falls back to
\* the current scores
CurrentOnly == get_historical_data(48, sheet, now, GOOGLE_SHEETS_ENABLED) = <<>>

ClientError(response) ==
    /\ response.code \in 400..499
    /\ response.status = "error"
    /\ "message" \in DOMAIN response

\* C17: whenever the aggregator has no result for an index, /api/price-action
\* and the current-only fallback of /api/price-action-history answer with a
\* 4xx and a message, never with a score and never with a 5xx.
C17_NoResultIsClientError ==
    /\ (Served("get_price_action") /\ NoPriceAction) => ClientError(ret)
    /\ (Served("get_price_action_history") /\ CurrentOnly /\ NoPriceAction)
           => ClientError(ret)

\* the aggregator has no result for an index in the refresh cycle that
\* filled the cache: none on its futures and none on its stocks
NoResult(futures_key, stocks_key, index_weights) ==
    /\ calculate_index_price_action(CachedList(cached_data, futures_key),
                                    index_weights) = None
    /\ calculate_index_price_action(CachedList(cached_data, stocks_key),
                                    index_weights) = None

\* the last request was a refresh that appended a row to the store
Refreshed ==
    /\ Served("refresh_data")
    /\ ret.code = 200
    /\ args.success

\* the row of column k is empty, the point read back from it has no score
\* under key, and the points calculate_composite_meter keeps are those it
\* keeps without that point
AbsencePropagates(k, key) ==
    LET row == sheet[Len(sheet)]
        points == get_historical_data(48, sheet, now, GOOGLE_SHEETS_ENABLED)
    IN  /\ ~Truthy(Cell(row, k))
        /\ points # <<>>
        /\ points[Len(points)].time_full = Cell(row, 0).v
        /\ points[Len(points)][key] = None
        /\ ProcessedData(points) = ProcessedData(SubSeq(points, 1, Len(points) - 1))

\* C18: when the aggregator has no result for an index in a refresh cycle,
\* the row appended holds an empty price-action cell for that index, not a
\* default or neutral number; get_historical_data reads the row back with
\* that score None, and calculate_composite_meter leaves the point out.
C18_AbsencePropagates ==
    Refreshed =>
        /\ NoResult("nifty_futures", "nifty_50", NIFTY_50_WEIGHTS)
               => AbsencePropagates(7, "nifty_price_action")
        /\ NoResult("bank_futures", "bank_nifty", BANK_NIFTY_WEIGHTS)
               => AbsencePropagates(8, "bank_price_action")

\* a refresh in which the nifty has no score and the bank nifty has one
C18_Witness ==
    /\ Refreshed
    /\ NoResult("nifty_futures", "nifty_50", NIFTY_50_WEIGHTS)
    /\ ~NoResult("bank_futures", "bank_nifty", BANK_NIFTY_WEIGHTS)
    /\ ~Truthy(Cell(sheet[Len(sheet)], 7))
    /\ Cell(sheet[Len(sheet)], 8).t = "num"

----------------------------------------------------------------------------
(* Specification of the history store: the sheet holds the rows of earlier *)
(* refreshes, the program appends to it and reads it, and the rows can be  *)
(* edited by hand in the spreadsheet.                                      *)

\* the scores of a refresh: <<nifty_iss, bank_iss, price action of both>>
StoreScores == { <<Frac(3, 4), Frac(1, 4), None>> }

\* the rows n earlier refreshes left in the sheet, RefreshMinutes apart, the
\* last of them RefreshMinutes before StartTime
Backlog(n) ==
    [k \in 1..n |->
        append_historical_data(Frac(k % 5, 4 + (k % 2)), Frac(1, 2), Frac(1, 2),
                               Frac(1, 2), InitialCache,
                               StartTime - RefreshMinutes * (n - k + 1))]

\* as many rows as get_historical_data returns at most
BacklogSizes == {HistoryLimit}

\* the hours_back of the callers (lines 1976 and 2085)
HoursBack == {6, 48}

StoreInit ==
    /\ pc = "serve"
    /\ fn = "start"
    /\ args = <<>>
    /\ ret = <<>>
    /\ GOOGLE_SHEETS_ENABLED \in BOOLEAN
    /\ \E n \in BacklogSizes :
          sheet = IF GOOGLE_SHEETS_ENABLED THEN Backlog(n) ELSE <<>>
    /\ now = StartTime
    /\ cached_data = InitialCache

\* append_historical_data is called with the scores of a refresh; it
\* returns False without a store
AppendRow ==
    /\ pc = "serve"
    /\ NewRows(sheet) < MaxRows
    /\ \E scores \in StoreScores, store_ok \in BOOLEAN :
          LET saved == Saved(sheet,
                             append_historical_data(scores[1], scores[2], scores[3],
                                                    scores[3], cached_data, now),
                             GOOGLE_SHEETS_ENABLED, store_ok)
          IN  /\ sheet' = saved.rows
              /\ ret' = saved.success
              /\ args' = scores
    /\ fn' = "append_historical_data"
    /\ UNCHANGED <<pc, now, cached_data, GOOGLE_SHEETS_ENABLED>>

\* what a hand edit can leave of a row: fewer than 4 columns, no timestamp,
\* a timestamp strptime rejects, no ISS, an ISS float rejects
EditKinds == {"short", "no time", "bad time", "no iss", "bad iss"}

Edited(row, kind) ==
    CASE kind = "short" -> SubSeq(row, 1, 3)
      [] kind = "no time" -> [row EXCEPT ![1] = EmptyCell]
      [] kind = "bad time" -> [row EXCEPT ![1] = TextCell("yesterday")]
      [] kind = "no iss" -> [row EXCEPT ![3] = EmptyCell]
      [] kind = "bad iss" -> [row EXCEPT ![4] = TextCell("n/a")]

\* the rows an edit touches: the oldest and the newest
EditPlaces(rows) == {i \in DOMAIN rows : i = 1 \/ i = Len(rows)}

\* the row is as append_historical_data writes rows
Written(row) ==
    /\ Len(row) = 11
    /\ Cell(row, 0).t = "time"
    /\ Cell(row, 2).t = "num"
    /\ Cell(row, 3).t = "num"

\* a row of the sheet is edited by hand
EditRow ==
    /\ pc = "serve"
    /\ Cardinality({i \in DOMAIN sheet : ~Written(sheet[i])}) < MaxEdits
    /\ \E i \in EditPlaces(sheet) :
          /\ Written(sheet[i])
          /\ \E kind \in EditKinds :
                sheet' = [sheet EXCEPT ![i] = Edited(sheet[i], kind)]
    /\ UNCHANGED <<fn, args, ret, pc, now, cached_data, GOOGLE_SHEETS_ENABLED>>

\* get_historical_data(hours_back); the call leaves the store as it is, and
\* the behaviour ends with it
GetHistoricalData ==
    /\ pc = "serve"
    /\ \E hours_back \in HoursBack :
          /\ ret' = get_historical_data(hours_back, sheet, now,
                                        GOOGLE_SHEETS_ENABLED)
          /\ args' = <<hours_back>>
    /\ fn' = "get_historical_data"
    /\ pc' = "done"
    /\ UNCHANGED server

StoreNext ==
    \/ AppendRow
    \/ EditRow
    \/ Tick
    \/ GetHistoricalData

StoreSpec == StoreInit /\ [][StoreNext]_vars

\* get_historical_data has returned
Queried == pc = "done" /\ fn = "get_historical_data"

\* the row has a timestamp and both ISS scores
HasTimestamp(row) == Len(row) >= 1 /\ Cell(row, 0).t = "time"
HasScores(row) == Len(row) >= 4 /\ Cell(row, 2).t = "num" /\ Cell(row, 3).t = "num"

\* a query of hours_back hours is about the row
Qualifies(row, hours_back, time) ==
    /\ HasTimestamp(row)
    /\ Cell(row, 0).v >= time - hours_back * 60
    /\ HasScores(row)

\* the places in the sheet of the rows it is about, in the order of the sheet
QualifyingPlaces(rows, hours_back, time) ==
    SelectSeq([i \in DOMAIN rows |-> i],
              LAMBDA i : Qualifies(rows[i], hours_back, time))

\* points holds one point for each of the HistoryLimit most recent
\* qualifying rows and for no other, in the order of the rows and in
\* ascending order of timestamp
AnswersQuery(points, rows, hours_back, time) ==
    LET places == QualifyingPlaces(rows, hours_back, time)
        dropped == IF Len(places) > HistoryLimit THEN Len(places) - HistoryLimit
                   ELSE 0
    IN  /\ Len(points) = Len(places) - dropped
        /\ Len(points) <= HistoryLimit
        /\ \A k \in DOMAIN points :
              LET row == rows[places[dropped + k]]
              IN  /\ points[k].time_full = Cell(row, 0).v
                  /\ points[k].nifty_iss = Cell(row, 2).v
                  /\ points[k].bank_iss = Cell(row, 3).v
        /\ \A k \in 1..(Len(points) - 1) :
              points[k].time_full <= points[k + 1].time_full

\* C19: in every reachable state of the store, get_historical_data(hours_back)
\* returns the stored rows whose timestamp is >= now - hours_back and whose
\* two ISS scores are there, in ascending order of timestamp, cut to the 100
\* most recent of them.
C19_RecentRowsAscendingAtMost100 ==
    Queried => AnswersQuery(ret, sheet, args[1], now)

\* a query that more than 100 rows qualify for, some row being too old for
\* it, answered with 100 points
C19_Witness ==
    /\ Queried
    /\ Len(QualifyingPlaces(sheet, args[1], now)) > HistoryLimit
    /\ \E i \in DOMAIN sheet : ~Qualifies(sheet[i], args[1], now)
    /\ Len(ret) = HistoryLimit
    /\ AnswersQuery(ret, sheet, args[1], now)

\* the row is malformed: fewer than 4 columns, no timestamp or one that does
\* not parse, an ISS score missing or not a number
Malformed(row) == ~HasTimestamp(row) \/ ~HasScores(row)

RemoveAt(rows, i) == SubSeq(rows, 1, i - 1) \o SubSeq(rows, i + 1, Len(rows))

\* C20: a malformed row is skipped on its own: the result of
\* get_historical_data on a sheet holding such a row is the result on the
\* sheet without that row, and the query does not fail because of it.
C20_MalformedRowSkipped ==
    Queried =>
        \A i \in DOMAIN sheet :
            Malformed(sheet[i]) =>
                /\ ret = get_historical_data(args[1], RemoveAt(sheet, i), now,
                                             GOOGLE_SHEETS_ENABLED)
                /\ AnswersQuery(ret, RemoveAt(sheet, i), args[1], now)

\* a query on a sheet with a malformed row among rows that qualify,
\* answered with the points of those
C20_Witness ==
    /\ Queried
    /\ \E i \in DOMAIN sheet :
          /\ Malformed(sheet[i])
          /\ i < Len(sheet)
          /\ ret # <<>>
          /\ ret = get_historical_data(args[1], RemoveAt(sheet, i), now,
                                       GOOGLE_SHEETS_ENABLED)

----------------------------------------------------------------------------
(* Claims about the refresh cycle and the history store *)

\* rows are the first rows of longer
IsPrefix(rows, longer) ==
    /\ Len(rows) <= Len(longer)
    /\ SubSeq(longer, 1, Len(rows)) = rows

\* the step is a request to /api/refresh-data
RefreshStep == fn' = "refresh_data" /\ now' = now /\ pc' = pc

\* the step is a refresh that went through its save step with the store
\* available
SaveStep == RefreshStep /\ ret'.code = 200 /\ args'.success

\* C21: the history store is append-only: a refresh cycle that reaches the
\* save step with the store available adds exactly one data row, and no
\* request (refresh or read) modifies or removes a row, so the rows before a
\* request are the first rows after it.
C21_AppendOnly ==
    [][ /\ SaveStep => Len(sheet') = Len(sheet) + 1
        /\ Len(sheet') # Len(sheet) => SaveStep
        /\ IsPrefix(sheet, sheet') ]_vars

\* a read endpoint has answered with two rows in the store
C21_Witness ==
    /\ Served("get_composite_meter")
    /\ Len(sheet) >= 2
    /\ GOOGLE_SHEETS_ENABLED

\* the refresh of the step got past its authentication
FetchStep == RefreshStep /\ cached_data'.auth_token.t # "NoneType"

\* C22: append_historical_data is best effort: it returns True only when the
\* row was appended and False, without raising, when the store is disabled
\* or one of its operations fails; refresh_data calls it once per cycle, does
\* not try again after False and still answers with status success.
C22_BestEffortAppend ==
    [][ FetchStep =>
          /\ ret'.code = 200 /\ ret'.status = "success"
          /\ args'.success =>
                /\ GOOGLE_SHEETS_ENABLED
                /\ Len(sheet') = Len(sheet) + 1
                /\ sheet'[Len(sheet')] = RefreshRow(cached_data', now)
          /\ ~args'.success => sheet' = sheet
          /\ ~GOOGLE_SHEETS_ENABLED => ~args'.success ]_vars

\* a refresh answered with success although the store, which is configured,
\* did not take the row
C22_Witness ==
    /\ Served("refresh_data")
    /\ ret.code = 200 /\ ret.status = "success"
    /\ GOOGLE_SHEETS_ENABLED
    /\ ~args.success
    /\ sheet = <<>>

\* the fetch got no 200 answer
Failed(response) == response.status_code # 200

\* the aggregators on the cached list of a fetch follow their
\* insufficient-data path: ISS 0.0 and no price-action score
EmptyInput(key, index_weights) ==
    /\ cached_data[key].t = "list"
    /\ cached_data[key].v = <<>>
    /\ calculate_meter_value(CachedList(cached_data, key)) = R(0)
    /\ calculate_index_price_action(CachedList(cached_data, key), index_weights) = None

\* the scores of the cycle for an index whose futures fetch failed: ISS 0.0
\* in the row the cycle stored, and no price-action score in it when the
\* fetch of its stocks failed as well
EmptyScores(futures_key, stocks_key, index_weights, iss, pa) ==
    Failed(args.responses[futures_key]) =>
        /\ EmptyInput(futures_key, index_weights)
        /\ args.success =>
              /\ Cell(sheet[Len(sheet)], iss).t = "num"
              /\ Cell(sheet[Len(sheet)], iss).v = R(0)
              /\ Failed(args.responses[stocks_key]) =>
                     ~Truthy(Cell(sheet[Len(sheet)], pa))

\* the refresh was refused by the broker at its login
LoginRefused ==
    /\ ret.code = 500
    /\ ret.status = "error"
    /\ ret.message = "Authentication failed"
    /\ cached_data.auth_token.t = "NoneType"

\* C23 as stated: when upstream is unavailable during a refresh
\* (authentication fails or a fetch fails), the failure is treated as empty
\* input to the aggregators (ISS 0.0, no price-action score) and the refresh
\* does not end in an error.
C23_UnavailableIsEmptyInput ==
    Served("refresh_data") =>
        /\ ret.status = "success"
        /\ EmptyScores("nifty_futures", "nifty_50", NIFTY_50_WEIGHTS, 2, 7)
        /\ EmptyScores("bank_futures", "bank_nifty", BANK_NIFTY_WEIGHTS, 3, 8)

\* C23, amended: a fetch that fails during a refresh is an empty list to the
\* aggregators (ISS 0.0, no price-action score) and the refresh answers with
\* success; a login that fails at the start of a refresh without a cached
\* token ends the refresh with the error response "Authentication failed",
\* before any aggregator runs.  Neither is raised past refresh_data.
C23_FailedFetchIsEmptyInput ==
    Served("refresh_data") =>
        \/ LoginRefused
        \/ /\ ret.code = 200 /\ ret.status = "success"
           /\ EmptyScores("nifty_futures", "nifty_50", NIFTY_50_WEIGHTS, 2, 7)
           /\ EmptyScores("bank_futures", "bank_nifty", BANK_NIFTY_WEIGHTS, 3, 8)

\* a refresh whose fetches all failed has stored its row
C23_Witness ==
    /\ Served("refresh_data")
    /\ ret.code = 200
    /\ args.success
    /\ Failed(args.responses.nifty_futures) /\ Failed(args.responses.nifty_50)
    /\ Failed(args.responses.bank_futures) /\ Failed(args.responses.bank_nifty)

----------------------------------------------------------------------------
(* The per-day OI cache: get_historical_oi_data on a clock that moves from  *)
(* day to day.                                                              *)

\* answers of the historical OI API: the oi of the entries of data
OIAnswers == { Unavailable, Answer(<<>>), Answer(<<7>>), Answer(<<7, 9>>) }

\* get_historical_oi_data with the entry of another day taken as today's
get_historical_oi_data_no_rollover(symbol_token, cache, time, login_ok, response) ==
    LET login == IF cache.auth_token.t = "NoneType"
                 THEN authenticate(cache, login_ok, time)
                 ELSE [ok |-> TRUE, cache |-> cache]
        logins == IF cache.auth_token.t = "NoneType" THEN 1 ELSE 0
        entry == cache.historical_oi_cache[symbol_token]
    IN  IF ~login.ok
        THEN [value |-> 0, cache |-> login.cache, requests |-> logins]
        ELSE IF entry # None
        THEN [value |-> entry[2], cache |-> login.cache, requests |-> logins]
        ELSE IF response.status_code = 200 /\ response.data # <<>>
        THEN [value |-> response.data[Len(response.data)],
              cache |-> [login.cache EXCEPT !.historical_oi_cache[symbol_token] =
                             <<DayOf(time), response.data[Len(response.data)]>>],
              requests |-> logins + 1]
        ELSE [value |-> 0, cache |-> login.cache, requests |-> logins + 1]

\* get_historical_oi_data (lines 416-492): the value returned, the cache
\* after the call and the number of requests sent upstream (the login, the
\* OI request).  An entry of the cache is <<cache_date, cache_data>>.
get_historical_oi_data(symbol_token, cache, time, login_ok, response) ==
    LET login == IF cache.auth_token.t = "NoneType"
                 THEN authenticate(cache, login_ok, time)
                 ELSE [ok |-> TRUE, cache |-> cache]
        logins == IF cache.auth_token.t = "NoneType" THEN 1 ELSE 0
        entry == cache.historical_oi_cache[symbol_token]
        today == DayOf(time)
    IN  IF ~login.ok
        THEN [value |-> 0, cache |-> login.cache, requests |-> logins]
        ELSE IF entry # None /\ entry[1] = today
        THEN [value |-> entry[2], cache |-> login.cache, requests |-> logins]
        ELSE IF response.status_code = 200 /\ response.data # <<>>
        THEN [value |-> response.data[Len(response.data)],
              cache |-> [login.cache EXCEPT !.historical_oi_cache[symbol_token] =
                             <<today, response.data[Len(response.data)]>>],
              requests |-> logins + 1]
        ELSE [value |-> 0, cache |-> login.cache, requests |-> logins + 1]

OIInit ==
    /\ pc = "serve"
    /\ fn = "start"
    /\ args = <<>>
    /\ ret = None
    /\ sheet = <<>>
    /\ now = StartTime
    /\ cached_data = InitialCache
    /\ GOOGLE_SHEETS_ENABLED \in BOOLEAN

\* a call of get_historical_oi_data, as fetch_market_data makes for a future
\* with open interest (line 810)
GetHistoricalOI ==
    /\ pc = "serve"
    /\ \E symbol_token \in OITokens,
          login_ok \in IF cached_data.auth_token.t = "NoneType" THEN BOOLEAN ELSE {TRUE},
          response \in OIAnswers :
          \E called \in { get_historical_oi_data(symbol_token, cached_data, now,
                                                 login_ok, response) } :
              /\ cached_data' = called.cache
              /\ ret' = [value |-> called.value, requests |-> called.requests]
              /\ args' = <<symbol_token, response>>
    /\ fn' = "get_historical_oi_data"
    /\ UNCHANGED <<pc, now, sheet, GOOGLE_SHEETS_ENABLED>>

\* midnight passes
NextDay ==
    /\ pc = "serve"
    /\ TicksTaken(now) < MaxTicks
    /\ now' = now + 1440
    /\ UNCHANGED <<fn, args, ret, pc, sheet, cached_data, GOOGLE_SHEETS_ENABLED>>

OINext == GetHistoricalOI \/ Tick \/ NextDay

OISpec == OIInit /\ [][OINext]_vars

\* the step is a call of get_historical_oi_data
OICall == fn' = "get_historical_oi_data" /\ now' = now

\* the entry of the token was stored on the day of time
StoredToday(cache, symbol_token, time) ==
    /\ cache.historical_oi_cache[symbol_token] # None
    /\ cache.historical_oi_cache[symbol_token][1] = DayOf(time)

\* the answer carries OI data
HasOI(response) == response.status_code = 200 /\ response.data # <<>>

\* the caches hold the same entries for every token but the one given
SameElsewhere(cache, other, symbol_token) ==
    \A token \in OITokens \ {symbol_token} :
        other.historical_oi_cache[token] = cache.historical_oi_cache[token]

\* C24: the per-day OI cache is keyed by (token, calendar day):
\* get_historical_oi_data(token) returns a cached value without contacting
\* upstream exactly when an entry of that token was stored on the current
\* day; an entry of an earlier day is not returned after day rollover; only
\* an upstream answer with OI data creates or replaces an entry, a failed
\* or empty fetch returns 0 and leaves the cache as it is.
C24_OICachePerTokenAndDay ==
    [][ OICall =>
          LET symbol_token == args'[1]
              response == args'[2]
              fresh == StoredToday(cached_data, symbol_token, now)
              oi_cache == cached_data.historical_oi_cache
          IN  /\ ret'.requests = 0 <=> fresh
              /\ fresh =>
                    /\ ret'.value = oi_cache[symbol_token][2]
                    /\ cached_data'.historical_oi_cache = oi_cache
              /\ ~fresh /\ cached_data'.auth_token.t # "NoneType" =>
                    IF HasOI(response)
                    THEN /\ ret'.value = response.data[Len(response.data)]
                         /\ cached_data'.historical_oi_cache[symbol_token] =
                                <<DayOf(now), ret'.value>>
                         /\ SameElsewhere(cached_data, cached_data', symbol_token)
                    ELSE /\ ret'.value = 0
                         /\ cached_data'.historical_oi_cache = oi_cache
              /\ cached_data'.auth_token.t = "NoneType" =>
                    /\ ret'.value = 0
                    /\ cached_data'.historical_oi_cache = oi_cache ]_vars

\* after midnight a token with an entry of the day before was asked for, the
\* fetch failed, 0 was returned and the old entry is still in the cache
C24_Witness ==
    /\ fn = "get_historical_oi_data"
    /\ cached_data.historical_oi_cache[args[1]] # None
    /\ cached_data.historical_oi_cache[args[1]][1] < DayOf(now)
    /\ cached_data.historical_oi_cache[args[1]][2] = 9
    /\ ret.value = 0
    /\ ret.requests = 1

----------------------------------------------------------------------------
(* The session with the broker: a token is good for the day of its login;  *)
(* requests carrying the token of an earlier day are rejected.             *)

\* the broker accepts requests that carry the token
Accepted(token, time) == token.t = "str" /\ token.v = DayOf(time)

\* the answer to a request with a token that is no longer good
Rejected == [status_code |-> 401, data |-> <<>>]

\* the answers of the broker to the fetches of a refresh made now: those of
\* a rejected token when the cached one has expired
SessionFeeds ==
    IF cached_data.auth_token.t = "NoneType" \/ Accepted(cached_data.auth_token, now)
    THEN Feeds
    ELSE { Feed(Rejected, Rejected, Rejected, Rejected, Rejected) }

SessionRefresh == Refresh(SessionFeeds)

SessionNext == SessionRefresh \/ Tick \/ NextDay

SessionSpec == ServerInit /\ [][SessionNext]_vars

\* C25: authentication is retry-by-reauthentication: when a market-data
\* request made with the cached auth token is rejected, the refresh
\* authenticates again, replacing the cached token, and retries, so that
\* refreshes return quotes again once the broker accepts fresh tokens.
C25_ReauthenticatesOnRejection ==
    [][ ( /\ RefreshStep
          /\ cached_data.auth_token.t # "NoneType"
          /\ ~Accepted(cached_data.auth_token, now) )
        => /\ Accepted(cached_data'.auth_token, now)
           /\ ret'.code = 200 ]_vars

----------------------------------------------------------------------------
(* The endpoints that read the cached quotes, between refreshes *)

\* the data_type of /api/data/<data_type> and the key of the cache it reads
DataTypes == {"nifty50", "banknifty", "nifty-futures", "bank-futures", "pcr"}

DataKey(data_type) ==
    CASE data_type = "nifty50" -> "nifty_50"
      [] data_type = "banknifty" -> "bank_nifty"
      [] data_type = "nifty-futures" -> "nifty_futures"
      [] data_type = "bank-futures" -> "bank_futures"

\* the meter of a response: value rounded to 3 places and the status
MeterData(meter_value) ==
    [ value |-> PyRound(meter_value, 1000),
      status |-> get_meter_status(meter_value).status,
      color |-> get_meter_status(meter_value).color ]

\* The response of GET /api/data/<data_type> (lines 1794-1828)
get_data(data_type, cache) ==
    IF data_type \notin {"nifty50", "banknifty", "nifty-futures", "bank-futures"}
    THEN [ code |-> 400, error |-> "Invalid data type" ]
    ELSE [ code |-> 200,
           data |-> cache[DataKey(data_type)],
           meter |-> IF data_type \in {"nifty-futures", "bank-futures"}
                     THEN MeterData(calculate_meter_value(
                                        CachedList(cache, DataKey(data_type))))
                     ELSE <<>>,
           pcr_data |-> cache.pcr_data,
           last_update |-> cache.last_update ]

\* The response of GET /api/meters (lines 2406-2431)
get_meters(cache) ==
    [ code |-> 200,
      nifty_meter |-> MeterData(MeterOrZero(CachedList(cache, "nifty_futures"))),
      bank_meter |-> MeterData(MeterOrZero(CachedList(cache, "bank_futures"))),
      last_update |-> cache.last_update ]

GetData ==
    /\ pc = "serve"
    /\ \E data_type \in DataTypes :
          /\ ret' = get_data(data_type, cached_data)
          /\ args' = <<data_type>>
    /\ fn' = "get_data"
    /\ UNCHANGED <<pc, server>>

GetMeters ==
    /\ pc = "serve"
    /\ ret' = get_meters(cached_data)
    /\ fn' = "get_meters"
    /\ args' = <<>>
    /\ UNCHANGED <<pc, server>>

\* a refresh to which the broker may give any of its answers
ReadRefresh == Refresh(Feeds)

ReadNext ==
    \/ ReadRefresh
    \/ Tick
    \/ GetData
    \/ GetMeters
    \/ GetPriceAction

\* the reads never touch the history store: the server is started with the
\* store not configured, as it is when the credentials are missing
ReadInit == ServerInit /\ ~GOOGLE_SHEETS_ENABLED

ReadSpec == ReadInit /\ [][ReadNext]_vars

----------------------------------------------------------------------------
(* Claims about the reads of the shared cache *)

ReadEndpoints == {"get_data", "get_meters", "get_price_action"}

\* the step serves one of the read endpoints
ReadStep == fn' \in ReadEndpoints /\ now' = now /\ pc' = pc

\* the fields of the cache a refresh writes: five fetch results and the time
QuoteKeys == {"nifty_50", "bank_nifty", "pcr_data", "nifty_futures", "bank_futures"}

\* two cached values are the same value
SameCell(a, b) == a.t = b.t /\ (a.t = "NoneType" \/ a.v = b.v)

\* every field a refresh writes is as the refresh at `time` that was
\* answered `feed` writes it
WrittenBy(cache, feed, time) ==
    /\ \A key \in QuoteKeys :
          /\ cache[key].t = "list"
          /\ IF Failed(feed[key]) THEN cache[key].v = <<>>
                                  ELSE cache[key].v = feed[key].data
    /\ cache.last_update.t = "num"
    /\ cache.last_update.v = time

\* no refresh has written any of the fields
StillInitial(cache) ==
    \A key \in QuoteKeys \cup {"last_update"} : cache[key].t = "NoneType"

\* the response of the read carries the fields of the cache it returns
Observes(response, data_type, cache) ==
    /\ response.code = 200 /\ fn' # "get_price_action" =>
          SameCell(response.last_update, cache.last_update)
    /\ response.code = 200 /\ fn' = "get_data" =>
          /\ SameCell(response.pcr_data, cache.pcr_data)
          /\ SameCell(response.data, cache[DataKey(data_type)])

\* C26: with one request served at a time, every read of /api/data,
\* /api/meters and /api/price-action sees nifty_50, bank_nifty, pcr_data,
\* nifty_futures, bank_futures and last_update either all at their initial
\* value or all as one refresh wrote them: a refresh that fetches writes
\* the six together from its own answers and its own clock, a refresh that
\* is refused writes none, and a read writes none and answers from that cache.
C26_ConsistentSnapshotPerRead ==
    [][ /\ RefreshStep /\ ret'.code = 200 =>
              WrittenBy(cached_data', args'.responses, now)
        /\ RefreshStep /\ ret'.code # 200 =>
              \A key \in QuoteKeys \cup {"last_update"} :
                  SameCell(cached_data'[key], cached_data[key])
        /\ ReadStep =>
              /\ \A key \in QuoteKeys \cup {"last_update"} :
                     SameCell(cached_data'[key], cached_data[key])
              /\ \/ StillInitial(cached_data)
                 \/ \E feed \in Feeds :
                        WrittenBy(cached_data, feed, cached_data.last_update.v)
              /\ Observes(ret', IF fn' = "get_data" THEN args'[1] ELSE "", cached_data)
      ]_vars

\* /api/data is read after a later refresh, with one stock fetch failed,
\* has replaced what an earlier refresh wrote
C26_Witness ==
    /\ Served("get_data")
    /\ ret.code = 200
    /\ ret.last_update.t = "num"
    /\ ret.last_update.v > StartTime
    /\ ret.data.t = "list"
    /\ ret.data.v # <<>>
    /\ cached_data.nifty_50.t = "list"
    /\ cached_data.nifty_50.v = <<>>

----------------------------------------------------------------------------
(* Claims about the engine on a flat window *)

\* the scores of column col are the same at every point the engine keeps
Flat(col) ==
    LET df == SortByTimestamp(ProcessedData(Fed))
    IN  \A i \in DOMAIN df : df[i][col] = df[1][col]

\* the state of an index the engine reports on a window with nothing to
\* normalise: value and momentum 0, hence below the sell threshold with
\* no crossing
AtFloor(state) ==
    /\ state.current_value = R(0)
    /\ state.momentum = R(0)
    /\ state.signal.action = "HOLD_SHORT"

C27_WitnessSimple ==
    /\ Fired
    /\ ~use_advanced_calculations
    /\ Len(Fed) = 12
    /\ Flat("bank_iss") /\ Flat("bank_pa")
    /\ ret # PyNone

----------------------------------------------------------------------------
(* Claims about the price-action fields of the stored row *)

\* the row holds the score p and its zone in the cells score_cell and
\* zone_cell
StoresPriceAction(row, score_cell, zone_cell, p) ==
    /\ Cell(row, score_cell).t = "num"
    /\ Cell(row, score_cell).v = PyRound(p, 10000)
    /\ Cell(row, zone_cell).t = "text"
    /\ Cell(row, zone_cell).v = get_price_action_zone(p).zone

\* the score refresh_data has for an index after its stock-data fallback, on
\* the cache the refresh has just filled
ComputedPriceAction(futures_key, stocks_key, index_weights) ==
    RefreshPriceAction(cached_data[futures_key].v, cached_data[stocks_key].v,
                       index_weights)

\* C28: the price-action fields of the row appended in a refresh cycle are
\* those refresh_data computed for each index after its stock-data fallback:
\* whenever it has a defined score p for an index, the row stores
\* round(p, 4) and the zone of p for that index, whether or not the score
\* of the other index is defined.
C28_StoredPriceActionIsComputed ==
    (Served("refresh_data") /\ ret.code = 200 /\ args.success) =>
        LET row == sheet[Len(sheet)]
            nifty == ComputedPriceAction("nifty_futures", "nifty_50", NIFTY_50_WEIGHTS)
            bank == ComputedPriceAction("bank_futures", "bank_nifty", BANK_NIFTY_WEIGHTS)
        IN  /\ nifty # None => StoresPriceAction(row, 7, 9, nifty)
            /\ bank # None => StoresPriceAction(row, 8, 10, bank)

\* the part of C28 that the code keeps: when refresh_data has a defined
\* score for both indices, the row stores both with their zones
C28_BothDefinedAreStored ==
    (Served("refresh_data") /\ ret.code = 200 /\ args.success) =>
        LET row == sheet[Len(sheet)]
            nifty == ComputedPriceAction("nifty_futures", "nifty_50", NIFTY_50_WEIGHTS)
            bank == ComputedPriceAction("bank_futures", "bank_nifty", BANK_NIFTY_WEIGHTS)
        IN  (nifty # None /\ bank # None) =>
                /\ StoresPriceAction(row, 7, 9, nifty)
                /\ StoresPriceAction(row, 8, 10, bank)

----------------------------------------------------------------------------
(* Claims about the composite-meter endpoint on a short history *)

\* C29: /api/composite-meter needs only 1 history point, the
\* minimum_required it states: whenever get_historical_data returns at least
\* one point and the latest point has both ISS and both PA defined, the
\* response has status success, with a signal and a momentum for both
\* indices, and is not an error.
C29_OnePointSuffices ==
    (/\ Served("get_composite_meter")
     /\ Len(MeterPoints) >= 1
     /\ ~PointIncomplete(MeterPoints[Len(MeterPoints)])) =>
        /\ ret.code = 200
        /\ ret.status = "success"
        /\ {"signal", "momentum"} \subseteq DOMAIN ret.nifty
        /\ {"signal", "momentum"} \subseteq DOMAIN ret.bank_nifty

\* what the code does instead: with the latest point complete the response
\* is a success exactly when there is a complete point before it
C29_NeedsCompletePreviousPoint ==
    (/\ Served("get_composite_meter")
     /\ Len(MeterPoints) >= 1
     /\ ~PointIncomplete(MeterPoints[Len(MeterPoints)])) =>
        IF /\ Len(MeterPoints) > 1
           /\ ~PointIncomplete(MeterPoints[Len(MeterPoints) - 1])
        THEN ret.code = 200 /\ ret.status = "success"
        ELSE ret.code = 500 /\ ret.status = "error"

----------------------------------------------------------------------------
(* Claims about a refresh whose login is refused *)

\* C30: when refresh_data starts with no cached auth token and the login
\* is refused, it answers with an error and leaves every field of the
\* shared cache (quote lists, pcr_data, last_update, auth_token, OI cache)
\* and the history store as they were: no fetch is made and no row is
\* appended.  A refresh that starts without a token and ends without one
\* is a refused one and answers 500; a refresh that starts without a token
\* and answers 500 has changed nothing.
C30_RefusedLoginChangesNothing ==
    [][ (RefreshStep /\ cached_data.auth_token.t = "NoneType") =>
            /\ cached_data'.auth_token.t = "NoneType" =>
                  /\ ret'.code = 500
                  /\ ret'.status = "error"
                  /\ ret'.message = "Authentication failed"
            /\ ret'.code = 500 =>
                  /\ cached_data' = cached_data
                  /\ sheet' = sheet
                  /\ "responses" \notin DOMAIN args'
      ]_vars

\* a refresh has been refused its login at a later time than the start,
\* and the cache and the store are as they were at the start
C30_Witness ==
    /\ Served("refresh_data")
    /\ LoginRefused
    /\ now > StartTime
    /\ cached_data = InitialCache
    /\ sheet = <<>>

====
